---------------------------- MODULE Spec2Model ----------------------------
(***************************************************************************)
(* A model of the vetting API: the HTTP server (src/unnamed/part_003, of   *)
(* which src/apiServer.js is the subset without the display and restricted *)
(* mint routes), the library functions its routes call, and the custodial  *)
(* wallet derivation (src/unnamed/part_001).                               *)
(*                                                                         *)
(* One request is handled at a time.  A handler runs from the arrival of   *)
(* the request to its first await in one step, and from each await to the  *)
(* next in one step; the outcome of every remote call (the Sui node) is a  *)
(* nondeterministic choice made when the call returns.                     *)
(***************************************************************************)
EXTENDS Integers, Sequences, FiniteSets, TLC

VARIABLES
    env,        \* the names of the environment variables that are set
    req,        \* the request being handled ([ep |-> "none"] when idle)
    pc,         \* "idle" | "await" | "done"
    pending,    \* the remote call the handler awaits ("none" when not awaiting)
    retryI,     \* fetchWithRetry's loop counter i
    calls,      \* the remote calls of this request that returned, and the
                \* timer waits that ended: <<[kind, out, v]>>
    resp,       \* the HTTP response sent for this request
    nresp,      \* how many responses were sent for this request
    libOut,     \* how the library function called by the route ended
    signer,     \* the credentials submitForVetting made its keypair from
    wInput,     \* wallet derivation: the userDetails under study
    wGen,       \* wallet derivation: how many times the process restarted
    wFirst,     \* wallet derivation: the first wallet derived from wInput
    wLast,      \* wallet derivation: the latest wallet derived from wInput
    table,      \* vetting workflow: the remote vetting table, by applicant
    lastOp,     \* vetting workflow: the latest library call and how it went
    prevOp,     \* vetting workflow: the library call before the latest
    hist,       \* vetting workflow: who submitted and who was approved so far
    handlers,   \* concurrent create-supply: where each request's handler is
    owned       \* concurrent create-supply: how many BRAAV objects of the
                \* requested type the signer owns on the chain

vars == <<env, req, pc, pending, retryI, calls, resp, nresp, libOut, signer,
          wInput, wGen, wFirst, wLast, table, lastOp, prevOp, hist,
          handlers, owned>>

serverVars == <<env, req, pc, pending, retryI, calls, resp, nresp, libOut, signer>>
walletVars == <<wInput, wGen, wFirst, wLast>>
vettingVars == <<table, lastOp, prevOp, hist>>
concurrentVars == <<handlers, owned>>

---------------------------------------------------------------------------
(* Bounds of the model *)

\* at most this many of the environment variables are unset
MaxMissingEnv == 2
\* at most this many of a mint request's fields are absent
MaxMissingFields == 1
\* user-supplied strings (id, created_at, secret_key) have at most this length
MaxStrLen == 1
\* the process restarts at most this many times
MaxRestarts == 1
\* the bytes of a devInspect return value number at most this many
MaxBytesLen == 3
\* this many create-supply requests are handled at the same time
MaxRequests == 2

---------------------------------------------------------------------------
(* Process configuration *)

EnvVars == {"MNEMONIC", "SUI_NETWORK", "PACKAGE_ID", "PUBLISHER_ID",
            "VETTING_TABLE_ID", "ADMIN_CAP", "CREATOR_CAP_ID", "PRIVATE_KEY",
            "WALLET_SECRET"}

EnvConfigs == {E \in SUBSET EnvVars : Cardinality(EnvVars \ E) <= MaxMissingEnv}

IsSet(name) == name \in env

---------------------------------------------------------------------------
(* Results of a library function's synchronous part or continuation, and  *)
(* HTTP responses.  Both use one flat record shape, "na" where a field is  *)
(* not part of the value.                                                  *)

NoWallet == [address |-> << >>, privateKey |-> << >>, mnemonic |-> << >>]

NoResp == [status |-> 0, kind |-> "none", success |-> "na",
           applicantAddress |-> "na", hasApplied |-> "na",
           isApproved |-> "na", message |-> "na", objectId |-> "na",
           errorField |-> "na", wallet |-> NoWallet]

Throw(msg)  == [tag |-> "throw",  message |-> msg,  val |-> NoResp]
Await(kind) == [tag |-> "await",  message |-> kind, val |-> NoResp]
Return(v)   == [tag |-> "return", message |-> "na", val |-> v]
NoLib       == [tag |-> "none",   message |-> "na", val |-> NoResp]

\* res.status(code).json({error: msg, ...})
ErrorResp(code, msg) ==
    [NoResp EXCEPT !.status = code, !.kind = "error", !.success = "false",
                   !.errorField = msg]

\* res.json(v): status 200 with the value as the body
OkResp(v) == [v EXCEPT !.status = 200]

NoReq == [ep |-> "none"]

\* JavaScript's !x for a request field
Falsy(v) == v \in {"absent", "empty"}

---------------------------------------------------------------------------
(* Remote calls and their outcomes.  A signed transaction either throws    *)
(* (network or RPC error), executes with a non-success status (nothing is  *)
(* created), or executes with success, creating the expected object or not *)

TxOutcomes == {"throws", "failure", "success_created", "success_nocreated"}

ByteVals == {0, 1, 255}

RECURSIVE SeqsUpTo(_, _)
SeqsUpTo(S, n) ==
    IF n = 0 THEN {<< >>}
    ELSE LET shorter == SeqsUpTo(S, n - 1)
         IN  shorter \cup {Append(q, x) : q \in {z \in shorter : Len(z) = n - 1}, x \in S}

\* devInspectTransactionBlock: throws, a non-success status, a success without
\* return values, or a success whose first return value is the bytes v
DevInspectOutcomes ==
    {[t |-> o, v |-> << >>] : o \in {"throws", "failure", "noReturn"}}
    \cup {[t |-> "bytes", v |-> b] : b \in SeqsUpTo(ByteVals, MaxBytesLen)}

\* the log of the calls that returned: v is the returned bytes of a devInspect
Called(kind, out, v) ==
    calls' = Append(calls, [kind |-> kind, out |-> out, v |-> v])

---------------------------------------------------------------------------
(* lib/statusOfVetting.js (src/unnamed/part_004) *)

\* applicantAddress of a request: absent, the empty string, a string that is
\* not a Sui address, or one of two well-formed addresses
ValidAddrs == {"valid", "otherValid"}
AddrVals == {"absent", "empty", "invalid"} \cup ValidAddrs

StatusResult(applicantAddress, applied, approved, msg, err) ==
    [NoResp EXCEPT !.kind = "status", !.applicantAddress = applicantAddress,
                   !.hasApplied = applied, !.isApproved = approved,
                   !.message = msg, !.errorField = err]

\* statusOfVetting submitting its move call as a signed transaction
statusOfVetting_start_signs(applicantAddress) ==
    IF ~IsSet("PACKAGE_ID") \/ ~IsSet("VETTING_TABLE_ID")
    THEN Throw("PACKAGE_ID or VETTING_TABLE_ID not set in .env file")
    ELSE IF applicantAddress = "invalid"
    THEN Throw("Invalid Sui address")
    ELSE Await("tx")

\* statusOfVetting up to its await: the environment check, then the
\* transaction is built (tx.pure.address rejects a malformed address)
statusOfVetting_start(applicantAddress) ==
    IF ~IsSet("PACKAGE_ID") \/ ~IsSet("VETTING_TABLE_ID")
    THEN Throw("PACKAGE_ID or VETTING_TABLE_ID not set in .env file")
    ELSE IF applicantAddress = "invalid"
    THEN Throw("Invalid Sui address")
    ELSE Await("devInspect")

\* DecodeOption with isApproved read as "the inner byte is not 0"
DecodeOption_nonZero(applicantAddress, optionValue) ==
    IF Len(optionValue) = 1 /\ optionValue[1] = 0
    THEN StatusResult(applicantAddress, "false", "null", "This address has not applied", "na")
    ELSE IF Len(optionValue) = 2 /\ optionValue[1] = 1
    THEN StatusResult(applicantAddress, "true", IF optionValue[2] # 0 THEN "true" ELSE "false",
                      "Approval status", "na")
    ELSE StatusResult(applicantAddress, "false", "null", "Unexpected return value", "na")

\* const optionValue = returnValues[0][0]; if / else if / else
DecodeOption(applicantAddress, optionValue) ==
    IF Len(optionValue) = 1 /\ optionValue[1] = 0
    THEN StatusResult(applicantAddress, "false", "null", "This address has not applied", "na")
    ELSE IF Len(optionValue) = 2 /\ optionValue[1] = 1
    THEN LET isApproved == (optionValue[2] = 1)
         IN  StatusResult(applicantAddress, "true", IF isApproved THEN "true" ELSE "false",
                          "Approval status", "na")
    ELSE StatusResult(applicantAddress, "false", "null", "Unexpected return value", "na")

\* statusOfVetting_return answering "not applied" to the call that follows
\* one which found an application
statusOfVetting_return_alternating(applicantAddress, out) ==
    IF lastOp.op = "status" /\ lastOp.result.val.hasApplied = "true"
    THEN Return(StatusResult(applicantAddress, "false", "null", "This address has not applied", "na"))
    ELSE IF out.t = "throws"
    THEN Return(StatusResult(applicantAddress, "false", "null", "This address has not applied",
                             "query error"))
    ELSE IF out.t \in {"failure", "noReturn"}
    THEN Return(StatusResult(applicantAddress, "false", "null", "This address has not applied", "na"))
    ELSE Return(DecodeOption(applicantAddress, out.v))

\* statusOfVetting_return with a catch whose result leaves the address out
statusOfVetting_return_catchWithoutAddress(applicantAddress, out) ==
    IF out.t = "throws"
    THEN Return(StatusResult("na", "false", "null", "This address has not applied",
                             "query error"))
    ELSE IF out.t \in {"failure", "noReturn"}
    THEN Return(StatusResult(applicantAddress, "false", "null",
                             "This address has not applied", "na"))
    ELSE Return(DecodeOption(applicantAddress, out.v))

\* statusOfVetting_return with a catch that rethrows
statusOfVetting_return_rethrow(applicantAddress, out) ==
    IF out.t = "throws" THEN Throw("query error")
    ELSE IF out.t \in {"failure", "noReturn"}
    THEN Return(StatusResult(applicantAddress, "false", "null", "This address has not applied", "na"))
    ELSE Return(DecodeOption(applicantAddress, out.v))

\* statusOfVetting from the return of devInspectTransactionBlock: the try body
\* and the catch
statusOfVetting_return(applicantAddress, out) ==
    IF out.t = "throws"
    THEN Return(StatusResult(applicantAddress, "false", "null", "This address has not applied",
                             "query error"))
    ELSE IF out.t = "failure"
    THEN Return(StatusResult(applicantAddress, "false", "null", "This address has not applied", "na"))
    ELSE IF out.t = "noReturn"
    THEN Return(StatusResult(applicantAddress, "false", "null", "This address has not applied", "na"))
    ELSE Return(DecodeOption(applicantAddress, out.v))

---------------------------------------------------------------------------
(* The script src/statusOfVetting.js: statusOfVetting as the command line  *)
(* has it, returning null, true or false                                   *)

\* the value returned: "null", "true" or "false"
CliResult(v) == [NoResp EXCEPT !.kind = "cliStatus", !.isApproved = v]

\* up to the await: an unset PACKAGE_ID or VETTING_TABLE_ID is logged and
\* null returned; the transaction is built as in the library
cli_statusOfVetting_start(applicantAddress) ==
    IF ~IsSet("PACKAGE_ID") \/ ~IsSet("VETTING_TABLE_ID")
    THEN Return(CliResult("null"))
    ELSE IF applicantAddress = "invalid"
    THEN Throw("Invalid Sui address")
    ELSE Await("devInspect")

\* cli_DecodeOption taking every decided application for an approved one
cli_DecodeOption_decidedIsApproved(optionValue) ==
    IF Len(optionValue) = 1 /\ optionValue[1] = 0
    THEN CliResult("null")
    ELSE IF Len(optionValue) = 2 /\ optionValue[1] = 1
    THEN CliResult("true")
    ELSE CliResult("null")

\* const optionValue = returnValues[0][0]; if / else if / else
cli_DecodeOption(optionValue) ==
    IF Len(optionValue) = 1 /\ optionValue[1] = 0
    THEN CliResult("null")
    ELSE IF Len(optionValue) = 2 /\ optionValue[1] = 1
    THEN LET isApproved == (optionValue[2] = 1)
         IN  CliResult(IF isApproved THEN "true" ELSE "false")
    ELSE CliResult("null")

\* from the return of devInspectTransactionBlock: the try body and the catch
cli_statusOfVetting_return(out) ==
    IF out.t = "throws" THEN Return(CliResult("null"))
    ELSE IF out.t = "failure" THEN Return(CliResult("null"))
    ELSE IF out.t = "noReturn" THEN Return(CliResult("null"))
    ELSE Return(cli_DecodeOption(out.v))

---------------------------------------------------------------------------
(* lib/approveVetting.js (src/unnamed/part_003, lines 838-885) *)

ApproveResult ==
    [NoResp EXCEPT !.kind = "approve", !.success = "true",
                   !.message = "Vetting approved successfully"]

approveVetting_start(applicantAddress) ==
    IF ~IsSet("PACKAGE_ID") \/ ~IsSet("VETTING_TABLE_ID") \/ ~IsSet("ADMIN_CAP")
    THEN Throw("Required environment variables not set: PACKAGE_ID, VETTING_TABLE_ID, or ADMIN_CAP")
    ELSE IF ~IsSet("MNEMONIC")
    THEN Throw("MNEMONIC is not set in the .env file")
    ELSE IF applicantAddress = "invalid"
    THEN Throw("Invalid Sui address")
    ELSE Await("tx")

\* the try around signAndExecuteTransaction: the result's status is not read
approveVetting_return(out) ==
    IF out = "throws" THEN Throw("transaction error") ELSE Return(ApproveResult)

---------------------------------------------------------------------------
(* lib/submitForVetting.js *)

\* a private key string: its length, whether it starts with '0x', and whether
\* its characters (those after the prefix, when it has one) are all hex digits
Key(len, prefixed, hex) == [len |-> len, prefixed |-> prefixed, hex |-> hex]

\* no privateKey, or the empty string
NoKey == Key(0, FALSE, TRUE)

\* 64 hex digits, and '0x' before 64 hex digits
BareKey == Key(64, FALSE, TRUE)
PrefixedKey == Key(66, TRUE, TRUE)

\* the keys tried, besides those two: 64 characters that are not all hex
\* digits, 66 hex digits without the prefix, the 128 hex digits of a 64-byte
\* secret key, bare and prefixed, 63 hex digits, and the 140 digits of the
\* documented example
PkVals == {NoKey, BareKey, PrefixedKey, Key(64, FALSE, FALSE), Key(66, FALSE, TRUE),
           Key(128, FALSE, TRUE), Key(130, TRUE, TRUE), Key(63, FALSE, TRUE),
           Key(140, FALSE, TRUE)}

\* walletCredentials of the request body: absent, or an object with a
\* mnemonic (and a privateKey or none), or an object without a mnemonic and
\* with any of the keys
WcVals == {[given |-> FALSE, mnemonic |-> "absent", privateKey |-> NoKey]}
          \cup {[given |-> TRUE, mnemonic |-> "ok", privateKey |-> k] :
                    k \in {NoKey, BareKey}}
          \cup {[given |-> TRUE, mnemonic |-> "absent", privateKey |-> k] :
                    k \in PkVals}

\* the keypair, named by the credentials it is made from, with the number of
\* bytes handed to Ed25519Keypair.fromSecretKey (0 for a keypair derived from
\* a mnemonic) and whether they were cut out of 64; or the error thrown
KeypairOf(from, n, cut) ==
    [tag |-> "ok", signer |-> from, message |-> "na", keyBytes |-> n, sliced |-> cut]
Keypair(from) == KeypairOf(from, 0, FALSE)
NoKeypair(msg) ==
    [tag |-> "throw", signer |-> "none", message |-> msg, keyBytes |-> 0,
     sliced |-> FALSE]

\* '0x' + privateKey
Prefix0x(k) == Key(k.len + 2, TRUE, k.hex /\ ~k.prefixed)

\* fromHex of @mysten/sui/utils: the prefix is dropped, an odd number of
\* digits is padded with a 0, and each pair of digits is a byte.  The number
\* of bytes returned, or -1 when it throws.  What it makes of characters that
\* are not hex digits is the library version's: it throws (strict), or reads
\* the pair as a byte just the same (lenient).
fromHex(hexStr, lenient) ==
    LET normalized == IF hexStr.prefixed THEN hexStr.len - 2 ELSE hexStr.len
        padded == normalized + (normalized % 2)
    IN  IF hexStr.hex \/ lenient THEN padded \div 2 ELSE -1

\* the try without its test of the string's length: whatever decodes is taken
LoadPrivateKey_anyLength(privateKey, from, msg, lenient) ==
    LET keyBytes == fromHex(IF privateKey.prefixed THEN privateKey
                            ELSE Prefix0x(privateKey), lenient)
    IN  IF keyBytes = -1 THEN NoKeypair(msg)
        ELSE IF keyBytes = 64 THEN KeypairOf(from, 32, TRUE)
        ELSE IF keyBytes # 32 THEN NoKeypair(msg)
        ELSE KeypairOf(from, keyBytes, FALSE)

\* the try around fromHex and Ed25519Keypair.fromSecretKey: every error in it
\* is rethrown as msg
LoadPrivateKey(privateKey, from, msg, lenient) ==
    LET keyBytes == IF privateKey.len = 64
                    THEN fromHex(Prefix0x(privateKey), lenient)
                    ELSE IF privateKey.len = 66 /\ privateKey.prefixed
                    THEN fromHex(privateKey, lenient)
                    ELSE -1
    IN  IF keyBytes = -1 THEN NoKeypair(msg)
        ELSE IF keyBytes = 64 THEN KeypairOf(from, 32, TRUE)
        ELSE IF keyBytes # 32 THEN NoKeypair(msg)
        ELSE KeypairOf(from, keyBytes, FALSE)

\* the selection with the environment as the fallback of credentials that
\* carry neither mnemonic nor privateKey
SelectKeypair_fallback(walletCredentials, envKey, lenient) ==
    IF walletCredentials.given /\ walletCredentials.mnemonic # "absent"
    THEN Keypair("request.mnemonic")
    ELSE IF walletCredentials.given /\ walletCredentials.privateKey # NoKey
    THEN LoadPrivateKey(walletCredentials.privateKey, "request.privateKey",
                        "Failed to load private key", lenient)
    ELSE IF IsSet("MNEMONIC") THEN Keypair("env.MNEMONIC")
    ELSE IF IsSet("PRIVATE_KEY")
    THEN LoadPrivateKey(envKey, "env.PRIVATE_KEY",
                        "Failed to load private key from environment", lenient)
    ELSE NoKeypair("Either MNEMONIC or PRIVATE_KEY must be set in the .env file, or provide walletCredentials")

\* if (walletCredentials) {...} else {...}: where the keypair comes from;
\* envKey is the value of PRIVATE_KEY when it is set
SelectKeypair(walletCredentials, envKey, lenient) ==
    IF walletCredentials.given
    THEN IF walletCredentials.mnemonic # "absent"
         THEN Keypair("request.mnemonic")
         ELSE IF walletCredentials.privateKey # NoKey
         THEN LoadPrivateKey(walletCredentials.privateKey, "request.privateKey",
                             "Failed to load private key", lenient)
         ELSE NoKeypair("Either mnemonic or privateKey must be provided in walletCredentials")
    ELSE IF IsSet("MNEMONIC")
         THEN Keypair("env.MNEMONIC")
         ELSE IF IsSet("PRIVATE_KEY")
         THEN LoadPrivateKey(envKey, "env.PRIVATE_KEY",
                             "Failed to load private key from environment", lenient)
         ELSE NoKeypair("Either MNEMONIC or PRIVATE_KEY must be set in the .env file, or provide walletCredentials")

\* the private key string the selection tries to load, NoKey when it loads none
KeyRead(walletCredentials, envKey) ==
    IF walletCredentials.given
    THEN IF walletCredentials.mnemonic # "absent" THEN NoKey
         ELSE walletCredentials.privateKey
    ELSE IF ~IsSet("MNEMONIC") /\ IsSet("PRIVATE_KEY") THEN envKey ELSE NoKey

submitForVetting_start(walletCredentials, envKey, lenient) ==
    IF ~IsSet("PACKAGE_ID") \/ ~IsSet("VETTING_TABLE_ID")
    THEN Throw("PACKAGE_ID or VETTING_TABLE_ID not set in .env file")
    ELSE LET keypair == SelectKeypair(walletCredentials, envKey, lenient)
         IN  IF keypair.tag = "throw" THEN Throw(keypair.message)
             ELSE Await("getBalance")

\* the keypair submitForVetting goes on with, and the key it was loaded from
submitForVetting_keypair(walletCredentials, envKey, lenient) ==
    IF ~IsSet("PACKAGE_ID") \/ ~IsSet("VETTING_TABLE_ID")
    THEN [keypair |-> NoKeypair("na"), privateKey |-> NoKey]
    ELSE [keypair |-> SelectKeypair(walletCredentials, envKey, lenient),
          privateKey |-> KeyRead(walletCredentials, envKey)]

\* the credentials behind the keypair submitForVetting goes on with
submitForVetting_signer(walletCredentials, envKey, lenient) ==
    submitForVetting_keypair(walletCredentials, envKey, lenient).keypair.signer

BalanceOutcomes == {"throws", "zero", "nonzero"}

\* the balance try with a catch that swallows every error
submitForVetting_balance_ignoreZero(out) == Await("tx")

\* the try around getBalance: only the zero balance error is rethrown
submitForVetting_balance(out) ==
    IF out = "zero" THEN Throw("No SUI tokens found in wallet") ELSE Await("tx")

SubmitResult ==
    [NoResp EXCEPT !.kind = "submit", !.success = "true",
                   !.message = "Vetting submission successful"]

submitForVetting_return(out) ==
    IF out = "throws" THEN Throw("transaction error")
    ELSE IF out \in {"success_created", "success_nocreated"}
    THEN Return(SubmitResult)
    ELSE Throw("Transaction failed")

---------------------------------------------------------------------------
(* lib/initializeVettingTable.js (src/createSupply.js, lines 294-338) *)

initializeVettingTable_start ==
    IF ~IsSet("PACKAGE_ID") THEN Throw("PACKAGE_ID not set in .env")
    ELSE IF ~IsSet("MNEMONIC") THEN Throw("MNEMONIC not set in .env")
    ELSE IF ~IsSet("ADMIN_CAP") THEN Throw("ADMIN_CAP_ID not set in .env")
    ELSE Await("tx")

TableResult == [NoResp EXCEPT !.kind = "tableId", !.objectId = "id"]

initializeVettingTable_return(out) ==
    IF out = "throws" THEN Throw("transaction error")
    ELSE IF out = "success_created" THEN Return(TableResult)
    ELSE Throw("VettingTable object not found")

---------------------------------------------------------------------------
(* Minting: validateMintRequest, validateRestrictedMintRequest, mintNFT     *)
(* (src/unnamed/part_003) and mintRestrictedNFT (src/unnamed/part_000)      *)

MintRequired == {"packageId", "supplyCapId", "lineageId", "counterId",
                 "recipientAddress", "nftName", "badgeCoinId"}

RestrictedRequired == {"packageId", "supplyCapId", "creatorCapId", "lineageId",
                       "counterId", "recipientAddress", "nftName", "coinId",
                       "braavVersion"}

\* a mint body: the fields it lacks, and whether its recipientAddress (when
\* present) is a well-formed Sui address
MintBodies(fields) ==
    {[missing |-> m, addr |-> a] :
        m \in {x \in SUBSET fields : Cardinality(x) <= MaxMissingFields},
        a \in {"valid", "invalid"}}

\* the middleware: a 400 response, or NoResp for next()
ValidateFields(requiredFields, body) ==
    IF body.missing \cap requiredFields # {}
    THEN ErrorResp(400, "Missing required fields")
    ELSE IF body.addr # "valid"
    THEN ErrorResp(400, "Invalid recipient address format")
    ELSE NoResp

validateMintRequest(body) == ValidateFields(MintRequired, body)

\* validateRestrictedMintRequest using validateMintRequest's requiredFields
validateRestrictedMintRequest_asMint(body) == ValidateFields(MintRequired, body)

\* validateRestrictedMintRequest with braavVersion left out of requiredFields
validateRestrictedMintRequest_noVersion(body) ==
    ValidateFields(RestrictedRequired \ {"braavVersion"}, body)

validateRestrictedMintRequest(body) == ValidateFields(RestrictedRequired, body)

mintNFT_start ==
    IF ~IsSet("MNEMONIC") THEN Throw("MNEMONIC not set in environment variables")
    ELSE IF ~IsSet("SUI_NETWORK") THEN Throw("SUI_NETWORK not set in environment variables")
    ELSE Await("tx")

MintResult(kind, id) ==
    [NoResp EXCEPT !.kind = kind, !.success = "true", !.objectId = id]

\* the status check, then createdNFT?.objectId ?? 'Not found'
mintNFT_return(out) ==
    IF out = "throws" THEN Throw("transaction error")
    ELSE IF out = "failure" THEN Throw("Transaction failed")
    ELSE Return(MintResult("mint", IF out = "success_created" THEN "id" ELSE "Not found"))

\* mintRestrictedNFT's argument checks; the route passes the validated body
mintRestrictedNFT_start(body) ==
    IF ~IsSet("MNEMONIC") THEN Throw("MNEMONIC not set")
    ELSE IF "packageId" \in body.missing THEN Throw("PACKAGE_ID not set")
    ELSE IF ~IsSet("SUI_NETWORK") THEN Throw("SUI_NETWORK not set")
    ELSE IF "supplyCapId" \in body.missing THEN Throw("SUPPLY_CAP_ID not set")
    ELSE IF "creatorCapId" \in body.missing THEN Throw("CREATOR_CAP_ID not set")
    ELSE IF "lineageId" \in body.missing THEN Throw("LINEAGE_ID not set")
    ELSE IF "counterId" \in body.missing THEN Throw("COUNTER_ID not set")
    ELSE IF "recipientAddress" \in body.missing THEN Throw("RECIPIENT_ADDRESS not set")
    ELSE IF body.addr # "valid" THEN Throw("Invalid recipient address")
    ELSE IF "nftName" \in body.missing THEN Throw("nftName is required")
    ELSE IF "coinId" \in body.missing THEN Throw("coinId is required")
    ELSE IF "braavVersion" \in body.missing THEN Throw("braavVersion is required")
    ELSE Await("tx")

mintRestrictedNFT_return(out) ==
    IF out = "throws" THEN Throw("transaction error")
    ELSE IF out = "failure" THEN Throw("Transaction failed")
    ELSE IF out = "success_nocreated"
    THEN Throw("Failed to retrieve RestrictedNFT object ID")
    ELSE Return(MintResult("mintRestricted", "id"))

---------------------------------------------------------------------------
(* createSupply.js (src/unnamed/part_005): fetchWithRetry and createSupply *)

\* fetchWithRetry's default for its parameter retries
Retries == 10

OwnedOutcomes == {"throws", "empty", "nonempty"}

\* getObject: a response with data, a response without data, an error whose
\* code is 'notExists', any other error
GetObjectOutcomes == {"data", "nodata", "notExists", "otherError"}

\* createSupply without the CREATOR_CAP_ID check
createSupply_start_noCapCheck ==
    IF ~IsSet("MNEMONIC") THEN Throw("MNEMONIC not set")
    ELSE IF ~IsSet("PACKAGE_ID") THEN Throw("PACKAGE_ID not set")
    ELSE IF ~IsSet("SUI_NETWORK") THEN Throw("SUI_NETWORK not set")
    ELSE Await("getOwnedObjects")

createSupply_start ==
    IF ~IsSet("MNEMONIC") THEN Throw("MNEMONIC not set")
    ELSE IF ~IsSet("PACKAGE_ID") THEN Throw("PACKAGE_ID not set")
    ELSE IF ~IsSet("SUI_NETWORK") THEN Throw("SUI_NETWORK not set")
    ELSE IF ~IsSet("CREATOR_CAP_ID") THEN Throw("CREATOR_CAP_ID not set")
    ELSE Await("getOwnedObjects")

\* createSupply going on to the transaction whatever the signer owns
createSupply_owned_ignoresExisting(out) ==
    IF out = "throws" THEN Throw("getOwnedObjects error") ELSE Await("tx")

\* after getOwnedObjects: objects.data.length > 0 throws
createSupply_owned(out) ==
    IF out = "throws" THEN Throw("getOwnedObjects error")
    ELSE IF out = "nonempty" THEN Throw("already used for packageId")
    ELSE Await("tx")

SupplyResult == [NoResp EXCEPT !.kind = "supply", !.success = "true",
                               !.message = "Supply created successfully"]

\* after signAndExecuteTransaction: no status check; the BRAAV object, when
\* one was created, is fetched with fetchWithRetry
createSupply_tx(out) ==
    IF out = "throws" THEN Throw("transaction error")
    ELSE IF out = "success_created" THEN Await("getObject")
    ELSE Return(SupplyResult)

\* the loop going round without a bound
fetchWithRetry_next_unbounded(i) == Await("getObject")

\* i++ and the loop test i < retries: the next attempt, or the throw after
\* the loop
fetchWithRetry_next(i) ==
    IF i + 1 < Retries THEN Await("getObject")
    ELSE Throw("Object not found after retries")

\* fetchWithRetry with the loop bound off by one (i <= retries)
fetchWithRetry_offByOne(i, out) ==
    IF out = "data" THEN Return(SupplyResult)
    ELSE IF out = "otherError" THEN Throw("getObject error")
    ELSE IF out = "notExists" THEN Await("delay")
    ELSE IF i + 1 <= Retries THEN Await("getObject")
    ELSE Throw("Object not found after retries")

\* fetchWithRetry with a catch that waits and retries whatever the error
fetchWithRetry_retryEveryError(i, out) ==
    IF out = "data" THEN Return(SupplyResult)
    ELSE IF out \in {"otherError", "notExists"} THEN Await("delay")
    ELSE fetchWithRetry_next(i)

\* one iteration of fetchWithRetry's loop, i its counter, out what getObject
\* did: a response with data is returned (and createSupply returns its
\* result), an error is rethrown unless its code is 'notExists', in which
\* case the catch waits delayMs; a response without data goes round at once
fetchWithRetry(i, out) ==
    IF out = "data" THEN Return(SupplyResult)
    ELSE IF out = "otherError" THEN Throw("getObject error")
    ELSE IF out = "notExists" THEN Await("delay")
    ELSE fetchWithRetry_next(i)

---------------------------------------------------------------------------
(* display.js (src/createSupply.js, lines 200-285): createDisplay *)

ArrVals == {[k |-> "absent", len |-> 0], [k |-> "notArray", len |-> 0],
            [k |-> "array", len |-> 0], [k |-> "array", len |-> 1],
            [k |-> "array", len |-> 2]}

VersionVals == {"absent", "empty", "notString", "ok"}

DisplayBodies == [displayKeys : ArrVals, displayValues : ArrVals,
                  braavVersion : VersionVals]

createDisplay_start(displayKeys, displayValues, braavVersion) ==
    IF ~IsSet("MNEMONIC") THEN Throw("MNEMONIC not set")
    ELSE IF ~IsSet("PUBLISHER_ID") THEN Throw("PUBLISHER_ID not set")
    ELSE IF ~IsSet("PACKAGE_ID") THEN Throw("PACKAGE_ID not set")
    ELSE IF ~IsSet("SUI_NETWORK") THEN Throw("SUI_NETWORK not set")
    ELSE IF displayKeys.k # "array" THEN Throw("displayKeys must be an array")
    ELSE IF displayValues.k # "array" THEN Throw("displayValues must be an array")
    ELSE IF displayKeys.len # displayValues.len
    THEN Throw("displayKeys and displayValues must have the same length")
    ELSE IF Falsy(braavVersion) THEN Throw("braavVersion is required")
    ELSE Await("getObject")

\* getObject of the publisher: an error, a response that is not a Publisher
\* object, or the Publisher
PublisherOutcomes == {"throws", "invalid", "publisher"}

createDisplay_publisher(out) ==
    IF out = "throws" THEN Throw("getObject error")
    ELSE IF out = "invalid" THEN Throw("Invalid PUBLISHER_ID")
    ELSE Await("tx")

DisplayResult(kind) == [NoResp EXCEPT !.kind = kind, !.success = "true",
                                      !.objectId = "id"]

createDisplay_return(out) ==
    IF out = "throws" THEN Throw("transaction error")
    ELSE IF out = "failure" THEN Throw("Transaction failed")
    ELSE IF out = "success_nocreated"
    THEN Throw("Failed to retrieve NFT Display object ID")
    ELSE Return(DisplayResult("display"))

\* restrictedDisplay.js is not among the sources: createRestrictedDisplay is
\* taken to follow createDisplay, as the route that calls it does
createRestrictedDisplay_start(displayKeys, displayValues, braavVersion) ==
    createDisplay_start(displayKeys, displayValues, braavVersion)

createRestrictedDisplay_publisher(out) == createDisplay_publisher(out)

createRestrictedDisplay_return(out) ==
    LET r == createDisplay_return(out)
    IN  IF r.tag = "return" THEN Return(DisplayResult("restrictedDisplay")) ELSE r

---------------------------------------------------------------------------
(* createCustodialWallet.js (src/unnamed/part_001) *)

\* the characters of the texts the derivation hashes
CharCode == [c \in {":", "a", "b", "0", "1", "f", "s", "u", "n", "d", "e", "i", "p"} |->
               CASE c = ":" -> 58 [] c = "a" -> 97 [] c = "b" -> 98 [] c = "0" -> 48
                 [] c = "1" -> 49 [] c = "f" -> 102 [] c = "s" -> 115
                 [] c = "u" -> 117 [] c = "n" -> 110 [] c = "d" -> 100
                 [] c = "e" -> 101 [] c = "i" -> 105 [] c = "p" -> 112]

\* a property of userDetails: given with a string value, or not given
Given(str) == [given |-> TRUE, s |-> str]
NotGiven   == [given |-> FALSE, s |-> << >>]

\* what a template literal makes of a property
Undefined == <<"u", "n", "d", "e", "f", "i", "n", "e", "d">>
ToText(f) == IF f.given THEN f.s ELSE Undefined

\* process.env.WALLET_SECRET || 'default_secret_change_in_production'
ConfiguredSecret == <<"s">>
DefaultSecret == <<"d", "e", "f", "a", "u", "s">>
WalletSecret == IF IsSet("WALLET_SECRET") THEN ConfiguredSecret ELSE DefaultSecret

RECURSIVE Absorb(_, _)
Absorb(text, acc) ==
    IF text = << >> THEN acc
    ELSE Absorb(Tail(text), (acc * 31 + CharCode[Head(text)]) % 65521)

\* crypto.createHmac('sha256', key).update(data).digest(): a fixed function
\* of key and data to 32 bytes (the hash itself is the library's)
HmacSha256(key, data) ==
    LET h == Absorb(data, Absorb(key, 7))
    IN  [k \in 1..32 |-> ((h + k) * (2 * k + 1) + (h \div 256) * k) % 256]

\* slice taking its end index as inclusive of one byte less
Slice_short(bytes, from, to) == SubSeq(bytes, from + 1, to - 1)

\* Buffer.slice(from, to) on a byte sequence
Slice(bytes, from, to) ==
    SubSeq(bytes, from + 1, IF to < Len(bytes) THEN to ELSE Len(bytes))

\* words.length: the list of generateMnemonicFromSeed holds 17 rows of 8 words
WordCount == 136

\* generateMnemonicFromSeed's word list
words ==
    <<"abandon", "ability", "able", "about", "above", "absent", "absorb", "abstract",
      "absurd", "abuse", "access", "accident", "account", "accuse", "achieve", "acid",
      "acoustic", "acquire", "across", "act", "action", "actor", "actress", "actual",
      "adapt", "add", "addict", "address", "adjust", "admit", "adult", "advance",
      "advice", "aerobic", "affair", "afford", "afraid", "again", "against", "agent",
      "agree", "ahead", "aim", "air", "airport", "aisle", "alarm", "album",
      "alcohol", "alert", "alien", "all", "alley", "allow", "almost", "alone",
      "alpha", "already", "also", "alter", "always", "amateur", "amazing", "among",
      "amount", "amused", "analyst", "anchor", "ancient", "anger", "angle", "angry",
      "animal", "ankle", "announce", "annual", "another", "answer", "antenna", "antique",
      "anxiety", "any", "apart", "apology", "appear", "apple", "approve", "april",
      "arcade", "arch", "arctic", "area", "arena", "argue", "arm", "armed",
      "armor", "army", "around", "arrange", "arrest", "arrive", "arrow", "art",
      "article", "artist", "artwork", "ask", "aspect", "assault", "asset", "assist",
      "assume", "asthma", "athlete", "atom", "attack", "attend", "attitude", "attract",
      "auction", "audit", "august", "aunt", "author", "auto", "autumn", "average",
      "avocado", "avoid", "awake", "aware", "away", "awesome", "awful", "awkward">>

\* generateMnemonicFromSeed reading consecutive bytes (seed[i])
generateMnemonicFromSeed_consecutive(seed) ==
    [i \in 1..12 |-> words[(seed[i] % Len(words)) + 1]]

\* the 12 words of mnemonicWords, before join(' '): for i = 0..11 the word
\* at index seed[i * 2] % words.length (sequences here count from 1)
generateMnemonicFromSeed(seed) ==
    [i \in 1..12 |-> words[(seed[(i - 1) * 2 + 1] % Len(words)) + 1]]

WalletResult(w) == Return([NoResp EXCEPT !.kind = "wallet", !.wallet = w])

\* the seed-input string
SeedData(userDetails) ==
    ToText(userDetails.id) \o <<":">> \o ToText(userDetails.created_at)
        \o <<":">> \o ToText(userDetails.secret_key)

\* createCustodialWallet keyed by a secret drawn when the process starts
createCustodialWallet_perProcessSecret(userDetails) ==
    LET seed == HmacSha256(WalletSecret \o [k \in 1..wGen |-> "p"], SeedData(userDetails))
        privateKeyBytes == Slice(seed, 0, 32)
    IN  WalletResult([address |-> privateKeyBytes,
                      privateKey |-> privateKeyBytes,
                      mnemonic |-> generateMnemonicFromSeed(privateKeyBytes)])

\* createCustodialWallet: Ed25519Keypair.fromSecretKey wants 32 bytes; the
\* address is a function of the key, stood for by the key bytes themselves
createCustodialWallet(userDetails) ==
    LET seedData == SeedData(userDetails)
        seed == HmacSha256(WalletSecret, seedData)
        privateKeyBytes == Slice(seed, 0, 32)
    IN  IF Len(privateKeyBytes) # 32
        THEN Throw("Wrong secretKey size")
        ELSE WalletResult([address |-> privateKeyBytes,
                           privateKey |-> privateKeyBytes,
                           mnemonic |-> generateMnemonicFromSeed(privateKeyBytes)])

\* createCustodialWalletWithStandardMnemonic reads privateKeyBytes, which it
\* never declares: a ReferenceError, caught and rethrown
createCustodialWalletWithStandardMnemonic(userDetails) ==
    Throw("privateKeyBytes is not defined")

---------------------------------------------------------------------------
(* The route handlers *)

Respond(r) ==
    /\ resp' = r
    /\ nresp' = nresp + 1
    /\ pc' = "done"
    /\ pending' = "none"

\* what a route does with the outcome of the library function it awaits:
\* res.json on return, the catch's res.status(500) on a throw
Continue(lib, okResp) ==
    IF lib.tag = "await"
    THEN /\ pc' = "await"
         /\ pending' = lib.message
         /\ UNCHANGED <<resp, nresp, libOut>>
    ELSE /\ libOut' = lib
         /\ IF lib.tag = "throw"
            THEN Respond(ErrorResp(500, lib.message))
            ELSE Respond(okResp)

Idle == pc = "idle"
Awaiting(ep, kind) == pc = "await" /\ req.ep = ep /\ pending = kind

\* the status route answering 500 when the result carries an error field
StatusQueryReturns_errorIs500(out) ==
    /\ Awaiting("status-of-vetting", "devInspect")
    /\ Called("devInspect", out.t, out.v)
    /\ LET lib == statusOfVetting_return(req.applicantAddress, out)
       IN  /\ libOut' = lib
           /\ IF lib.tag = "throw" \/ lib.val.errorField # "na" \/ out.t = "failure"
              THEN Respond(ErrorResp(500, "status check failed"))
              ELSE Respond(OkResp(lib.val))
    /\ UNCHANGED <<env, signer, req, retryI>>

\* POST /api/status-of-vetting
StatusReceive(a) ==
    /\ Idle
    /\ req' = [ep |-> "status-of-vetting", applicantAddress |-> a]
    /\ IF Falsy(a)
       THEN /\ Respond(ErrorResp(400, "applicantAddress is required in request body"))
            /\ UNCHANGED libOut
       ELSE Continue(statusOfVetting_start(a), NoResp)
    /\ UNCHANGED <<env, signer, retryI, calls>>

StatusQueryReturns(out) ==
    /\ Awaiting("status-of-vetting", "devInspect")
    /\ Called("devInspect", out.t, out.v)
    /\ LET lib == statusOfVetting_return(req.applicantAddress, out)
       IN  Continue(lib, OkResp(lib.val))
    /\ UNCHANGED <<env, signer, req, retryI>>

\* POST /api/approve-vetting
ApproveReceive(a) ==
    /\ Idle
    /\ req' = [ep |-> "approve-vetting", applicantAddress |-> a]
    /\ IF Falsy(a)
       THEN /\ Respond(ErrorResp(400, "applicantAddress is required in request body"))
            /\ UNCHANGED libOut
       ELSE Continue(approveVetting_start(a), NoResp)
    /\ UNCHANGED <<env, signer, retryI, calls>>

ApproveTxReturns(out) ==
    /\ Awaiting("approve-vetting", "tx")
    /\ Called("tx", out, << >>)
    /\ LET lib == approveVetting_return(out)
       IN  Continue(lib, OkResp(lib.val))
    /\ UNCHANGED <<env, signer, req, retryI>>

\* POST /api/submit-for-vetting
\* the handler's keypair, and the key string it was loaded from, are kept
\* with the request; envKey is the value of PRIVATE_KEY, lenient the way of
\* the installed fromHex
SubmitReceive(wc, envKey, lenient) ==
    /\ Idle
    /\ LET loaded == submitForVetting_keypair(wc, envKey, lenient)
       IN  req' = [ep |-> "submit-for-vetting", walletCredentials |-> wc,
                   privateKey |-> loaded.privateKey, keypair |-> loaded.keypair]
    /\ Continue(submitForVetting_start(wc, envKey, lenient), NoResp)
    /\ signer' = submitForVetting_signer(wc, envKey, lenient)
    /\ UNCHANGED <<env, retryI, calls>>

SubmitBalanceReturns(out) ==
    /\ Awaiting("submit-for-vetting", "getBalance")
    /\ Called("getBalance", out, << >>)
    /\ Continue(submitForVetting_balance(out), NoResp)
    /\ UNCHANGED <<env, signer, req, retryI>>

SubmitTxReturns(out) ==
    /\ Awaiting("submit-for-vetting", "tx")
    /\ Called("tx", out, << >>)
    /\ LET lib == submitForVetting_return(out)
       IN  Continue(lib, OkResp(lib.val))
    /\ UNCHANGED <<env, signer, req, retryI>>

\* POST /api/initialize-vetting-table
InitTableReceive ==
    /\ Idle
    /\ req' = [ep |-> "initialize-vetting-table"]
    /\ Continue(initializeVettingTable_start, NoResp)
    /\ UNCHANGED <<env, signer, retryI, calls>>

InitTableTxReturns(out) ==
    /\ Awaiting("initialize-vetting-table", "tx")
    /\ Called("tx", out, << >>)
    /\ LET lib == initializeVettingTable_return(out)
       IN  Continue(lib, OkResp(lib.val))
    /\ UNCHANGED <<env, signer, req, retryI>>

\* POST /api/mint-nft: validateMintRequest, then the route
MintReceive(body) ==
    /\ Idle
    /\ req' = [ep |-> "mint-nft", body |-> body]
    /\ LET v == validateMintRequest(body)
       IN  IF v.status # 0
           THEN Respond(v) /\ UNCHANGED libOut
           ELSE Continue(mintNFT_start, NoResp)
    /\ UNCHANGED <<env, signer, retryI, calls>>

MintTxReturns(out) ==
    /\ Awaiting("mint-nft", "tx")
    /\ Called("tx", out, << >>)
    /\ LET lib == mintNFT_return(out)
       IN  Continue(lib, OkResp(lib.val))
    /\ UNCHANGED <<env, signer, req, retryI>>

\* the route with its environment checks responding without returning: the
\* handler goes on into mintRestrictedNFT, which throws, and the catch
\* responds once more
MintRestrictedReceive_noReturn(body) ==
    /\ Idle
    /\ req' = [ep |-> "mint-restricted-nft", body |-> body]
    /\ LET v == validateRestrictedMintRequest(body)
       IN  IF v.status # 0
           THEN Respond(v) /\ UNCHANGED libOut
           ELSE IF ~IsSet("MNEMONIC") \/ ~IsSet("SUI_NETWORK")
           THEN LET lib == mintRestrictedNFT_start(body)
                IN  /\ libOut' = lib
                    /\ resp' = ErrorResp(500, lib.message)
                    /\ nresp' = nresp + 2
                    /\ pc' = "done"
                    /\ pending' = "none"
           ELSE Continue(mintRestrictedNFT_start(body), NoResp)
    /\ UNCHANGED <<env, signer, retryI, calls>>

\* POST /api/mint-restricted-nft: validateRestrictedMintRequest, then the route
MintRestrictedReceive(body) ==
    /\ Idle
    /\ req' = [ep |-> "mint-restricted-nft", body |-> body]
    /\ LET v == validateRestrictedMintRequest(body)
       IN  IF v.status # 0
           THEN Respond(v) /\ UNCHANGED libOut
           ELSE IF ~IsSet("MNEMONIC")
           THEN /\ Respond(ErrorResp(500, "MNEMONIC not configured in environment variables"))
                /\ UNCHANGED libOut
           ELSE IF ~IsSet("SUI_NETWORK")
           THEN /\ Respond(ErrorResp(500, "SUI_NETWORK not configured in environment variables"))
                /\ UNCHANGED libOut
           ELSE Continue(mintRestrictedNFT_start(body), NoResp)
    /\ UNCHANGED <<env, signer, retryI, calls>>

MintRestrictedTxReturns(out) ==
    /\ Awaiting("mint-restricted-nft", "tx")
    /\ Called("tx", out, << >>)
    /\ LET lib == mintRestrictedNFT_return(out)
       IN  Continue(lib, OkResp(lib.val))
    /\ UNCHANGED <<env, signer, req, retryI>>

\* POST /api/create-supply
SupplyVals == {"absent", "notNumber", "zero", "negative", "positive"}
NameVals == {"absent", "empty", "ok"}

\* the route without its second check (typeof supplyLimit, supplyLimit <= 0)
SupplyReceive_noPositiveCheck(supplyLimit, tokenTypeName) ==
    /\ Idle
    /\ req' = [ep |-> "create-supply", supplyLimit |-> supplyLimit,
               tokenTypeName |-> tokenTypeName]
    /\ IF supplyLimit = "absent" \/ Falsy(tokenTypeName)
       THEN /\ Respond(ErrorResp(400, "supplyLimit (number) and tokenTypeName (string) are required in request body"))
            /\ UNCHANGED libOut
       ELSE Continue(createSupply_start, NoResp)
    /\ UNCHANGED <<env, signer, retryI, calls>>

SupplyReceive(supplyLimit, tokenTypeName) ==
    /\ Idle
    /\ req' = [ep |-> "create-supply", supplyLimit |-> supplyLimit,
               tokenTypeName |-> tokenTypeName]
    /\ IF supplyLimit = "absent" \/ Falsy(tokenTypeName)
       THEN /\ Respond(ErrorResp(400, "supplyLimit (number) and tokenTypeName (string) are required in request body"))
            /\ UNCHANGED libOut
       ELSE IF supplyLimit # "positive"
       THEN /\ Respond(ErrorResp(400, "supplyLimit must be a positive number"))
            /\ UNCHANGED libOut
       ELSE Continue(createSupply_start, NoResp)
    /\ UNCHANGED <<env, signer, retryI, calls>>

SupplyOwnedReturns(out) ==
    /\ Awaiting("create-supply", "getOwnedObjects")
    /\ Called("getOwnedObjects", out, << >>)
    /\ Continue(createSupply_owned(out), NoResp)
    /\ UNCHANGED <<env, signer, req, retryI>>

SupplyTxReturns(out) ==
    /\ Awaiting("create-supply", "tx")
    /\ Called("tx", out, << >>)
    /\ LET lib == createSupply_tx(out)
       IN  Continue(lib, OkResp(lib.val))
    /\ retryI' = 0
    /\ UNCHANGED <<env, signer, req>>

SupplyFetchReturns(out) ==
    /\ Awaiting("create-supply", "getObject")
    /\ Called("getObject", out, << >>)
    /\ LET lib == fetchWithRetry(retryI, out)
       IN  Continue(lib, OkResp(lib.val))
    /\ retryI' = IF out = "nodata" THEN retryI + 1 ELSE retryI
    /\ UNCHANGED <<env, signer, req>>

\* the timer of the catch's setTimeout fires
SupplyDelayElapses ==
    /\ Awaiting("create-supply", "delay")
    /\ Called("delay", "elapsed", << >>)
    /\ Continue(fetchWithRetry_next(retryI), NoResp)
    /\ retryI' = retryI + 1
    /\ UNCHANGED <<env, signer, req>>

\* POST /api/create-display and POST /api/create-restricted-display
DisplayEps == {"create-display", "create-restricted-display"}

DisplayReceive(ep, body) ==
    /\ Idle
    /\ req' = [ep |-> ep, body |-> body]
    /\ IF body.displayKeys.k # "array"
       THEN /\ Respond(ErrorResp(400, "displayKeys is required and must be an array"))
            /\ UNCHANGED libOut
       ELSE IF body.displayValues.k # "array"
       THEN /\ Respond(ErrorResp(400, "displayValues is required and must be an array"))
            /\ UNCHANGED libOut
       ELSE IF body.displayKeys.len # body.displayValues.len
       THEN /\ Respond(ErrorResp(400, "displayKeys and displayValues must have the same length"))
            /\ UNCHANGED libOut
       ELSE IF body.braavVersion # "ok"
       THEN /\ Respond(ErrorResp(400, "braavVersion is required and must be a string"))
            /\ UNCHANGED libOut
       ELSE IF ~IsSet("MNEMONIC")
       THEN /\ Respond(ErrorResp(500, "MNEMONIC not configured in environment variables"))
            /\ UNCHANGED libOut
       ELSE IF ~IsSet("PUBLISHER_ID")
       THEN /\ Respond(ErrorResp(500, "PUBLISHER_ID not configured in environment variables"))
            /\ UNCHANGED libOut
       ELSE IF ~IsSet("PACKAGE_ID")
       THEN /\ Respond(ErrorResp(500, "PACKAGE_ID not configured in environment variables"))
            /\ UNCHANGED libOut
       ELSE IF ~IsSet("SUI_NETWORK")
       THEN /\ Respond(ErrorResp(500, "SUI_NETWORK not configured in environment variables"))
            /\ UNCHANGED libOut
       ELSE IF ep = "create-display"
       THEN Continue(createDisplay_start(body.displayKeys, body.displayValues,
                                         body.braavVersion), NoResp)
       ELSE Continue(createRestrictedDisplay_start(body.displayKeys, body.displayValues,
                                                   body.braavVersion), NoResp)
    /\ UNCHANGED <<env, signer, retryI, calls>>

DisplayPublisherReturns(out) ==
    /\ pc = "await" /\ req.ep \in DisplayEps /\ pending = "getObject"
    /\ Called("getObject", out, << >>)
    /\ IF req.ep = "create-display"
       THEN Continue(createDisplay_publisher(out), NoResp)
       ELSE Continue(createRestrictedDisplay_publisher(out), NoResp)
    /\ UNCHANGED <<env, signer, req, retryI>>

DisplayTxReturns(out) ==
    /\ pc = "await" /\ req.ep \in DisplayEps /\ pending = "tx"
    /\ Called("tx", out, << >>)
    /\ LET lib == IF req.ep = "create-display" THEN createDisplay_return(out)
                  ELSE createRestrictedDisplay_return(out)
       IN  Continue(lib, OkResp(lib.val))
    /\ UNCHANGED <<env, signer, req, retryI>>

\* POST /api/create-wallet.  new Date().toISOString() and
\* crypto.randomBytes(32).toString('hex') are the inputs now and rnd.
TimeStrs == {<<"1", ":", "0">>, <<"1", ":", "1">>}
RandStrs == {<<"a">>, <<"f">>}

\* the request's userDetails: absent, or an object with each of id,
\* created_at and secret_key not given, empty or a string
RouteFieldVals == {NotGiven, Given(<< >>), Given(<<"a">>)}
UserDetailsVals ==
    {[given |-> FALSE, id |-> NotGiven, created_at |-> NotGiven, secret_key |-> NotGiven]}
    \cup {[given |-> TRUE, id |-> i, created_at |-> c, secret_key |-> k] :
             i \in RouteFieldVals, c \in RouteFieldVals, k \in RouteFieldVals}

\* x || d
OrElse(f, d) == IF f.given /\ f.s # << >> THEN f ELSE Given(d)

\* {id: userDetails.id, created_at: ... || now, secret_key: ... || rnd,
\*  ...userDetails}: the spread writes every property userDetails has
\* over the defaults
completeUserDetails(userDetails, now, rnd) ==
    LET defaults == [id |-> userDetails.id,
                     created_at |-> OrElse(userDetails.created_at, now),
                     secret_key |-> OrElse(userDetails.secret_key, rnd)]
    IN  [f \in {"id", "created_at", "secret_key"} |->
            IF userDetails[f].given THEN userDetails[f] ELSE defaults[f]]

\* !userDetails || !userDetails.id
WalletRequestRejected(userDetails) ==
    ~userDetails.given \/ ~userDetails.id.given \/ userDetails.id.s = << >>

\* the handler's local completeUserDetails is kept with the request
WalletReceive(userDetails, useStandardMnemonic, now, rnd) ==
    /\ Idle
    /\ req' = [ep |-> "create-wallet", userDetails |-> userDetails,
               useStandardMnemonic |-> useStandardMnemonic,
               completeUserDetails |->
                   IF WalletRequestRejected(userDetails) THEN userDetails
                   ELSE completeUserDetails(userDetails, now, rnd)]
    /\ IF WalletRequestRejected(userDetails)
       THEN /\ Respond(ErrorResp(400, "userDetails with id is required in request body"))
            /\ UNCHANGED libOut
       ELSE LET complete == completeUserDetails(userDetails, now, rnd)
                lib == IF useStandardMnemonic
                       THEN createCustodialWalletWithStandardMnemonic(complete)
                       ELSE createCustodialWallet(complete)
            IN  Continue(lib, [OkResp(lib.val) EXCEPT !.success = "true"])
    /\ UNCHANGED <<env, signer, retryI, calls>>

\* the response is on the wire; the server is ready for the next request
Finish ==
    /\ pc = "done"
    /\ pc' = "idle"
    /\ req' = NoReq
    /\ calls' = << >>
    /\ resp' = NoResp
    /\ nresp' = 0
    /\ libOut' = NoLib
    /\ retryI' = 0
    /\ signer' = "none"
    /\ UNCHANGED <<env, pending>>

---------------------------------------------------------------------------
(* Wallet derivation on its own: createCustodialWallet is called again and *)
(* again on one userDetails, in one process and across restarts of it      *)

WalletChars == {":", "a"}

WalletFieldVals == {NotGiven} \cup {Given(t) : t \in SeqsUpTo(WalletChars, MaxStrLen)}

WalletInputs == [id : WalletFieldVals, created_at : WalletFieldVals,
                 secret_key : WalletFieldVals]

NoDerivation == [gen |-> 0, out |-> NoLib]

DeriveWallet ==
    /\ LET d == [gen |-> wGen, out |-> createCustodialWallet(wInput)]
       IN  /\ wLast' = d
           /\ wFirst' = IF wFirst.out.tag = "none" THEN d ELSE wFirst
    /\ UNCHANGED <<wInput, wGen>>

\* the process is stopped and started again with the same environment
RestartProcess ==
    /\ wGen < MaxRestarts
    /\ wGen' = wGen + 1
    /\ UNCHANGED <<wInput, wFirst, wLast>>

---------------------------------------------------------------------------
(* The vetting workflow: submitForVetting, statusOfVetting and             *)
(* approveVetting called one after the other against a remote vetting      *)
(* table.  The table is the Move package's, which is not among the         *)
(* sources: it records an application on a successful submit_for_vetting   *)
(* and a decision on a successful approve_vetting, and status_of_vetting   *)
(* returns the applicant's entry as an optional boolean.                   *)

Applicants == {"A", "B"}

EmptyTable == [a \in Applicants |-> "none"]

\* what a signed transaction leaves in the table: nothing unless it executed
\* with success
RemoteTx(fn, a, out, t) ==
    IF out \notin {"success_created", "success_nocreated"} THEN t
    ELSE IF fn = "submit_for_vetting"
    THEN IF t[a] = "none" THEN [t EXCEPT ![a] = "pending"] ELSE t
    ELSE IF fn = "approve_vetting"
    THEN IF t[a] = "none" THEN t ELSE [t EXCEPT ![a] = "approved"]
    ELSE t

\* the bytes of the optional boolean status_of_vetting returns
EncodeEntry(e) ==
    IF e = "none" THEN <<0>>
    ELSE IF e = "pending" THEN <<1, 0>>
    ELSE <<1, 1>>

\* how the remote query of a status check goes: it throws, reports a
\* non-success status, returns nothing, or answers with the entry
QueryOutcomes == {"throws", "failure", "noReturn", "answer"}

OpRecord(op, a, kinds, out, result, before, after) ==
    [op |-> op, addr |-> a, kinds |-> kinds, out |-> out, result |-> result,
     before |-> before, after |-> after]

NoOp == OpRecord("none", "none", << >>, [t |-> "none", v |-> << >>], NoLib,
                 EmptyTable, EmptyTable)

NoHist == [submitCalled |-> {}, submitOk |-> {}, approveCalled |-> {},
           approveOk |-> {}]

Record(op) ==
    /\ lastOp' = op
    /\ prevOp' = lastOp

\* the applicant's own credentials, sent with the submit request
OwnCredentials == [given |-> TRUE, mnemonic |-> "ok", privateKey |-> NoKey]

\* a call of statusOfVetting(a) from start to end
WfStatus(a, o) ==
    LET start == statusOfVetting_start("valid")
        out == IF o = "answer" THEN [t |-> "bytes", v |-> EncodeEntry(table[a])]
               ELSE [t |-> o, v |-> << >>]
    IN  /\ IF start.tag = "await"
           THEN Record(OpRecord("status", a, <<start.message>>, out,
                                statusOfVetting_return(a, out), table, table))
           ELSE Record(OpRecord("status", a, << >>, [t |-> "none", v |-> << >>],
                                start, table, table))
        /\ UNCHANGED <<table, hist>>

\* a call of submitForVetting by applicant a, from start to end; the
\* workflow submits for an applicant until one submission succeeds
WfSubmit(a, bal, o) ==
    /\ a \notin hist.submitOk
    /\ LET start == submitForVetting_start(OwnCredentials, BareKey, FALSE)
           balance == IF start.tag = "await" THEN submitForVetting_balance(bal)
                      ELSE start
           sent == balance.tag = "await"
           result == IF sent THEN submitForVetting_return(o) ELSE balance
           after == IF sent THEN RemoteTx("submit_for_vetting", a, o, table)
                    ELSE table
       IN  /\ table' = after
           /\ Record(OpRecord("submit", a,
                              IF sent THEN <<"getBalance", "tx">>
                              ELSE IF start.tag = "await" THEN <<"getBalance">>
                              ELSE << >>,
                              [t |-> IF sent THEN o ELSE bal, v |-> << >>],
                              result, table, after))
           /\ hist' = [hist EXCEPT
                         !.submitCalled = @ \cup {a},
                         !.submitOk = IF result.tag = "return" THEN @ \cup {a} ELSE @]

\* a call of approveVetting(a) from start to end; the workflow approves an
\* applicant after their submission succeeded
WfApprove(a, o) ==
    /\ a \in hist.submitOk
    /\ LET start == approveVetting_start("valid")
           sent == start.tag = "await"
           result == IF sent THEN approveVetting_return(o) ELSE start
           after == IF sent THEN RemoteTx("approve_vetting", a, o, table) ELSE table
       IN  /\ table' = after
           /\ Record(OpRecord("approve", a, IF sent THEN <<"tx">> ELSE << >>,
                              [t |-> IF sent THEN o ELSE "none", v |-> << >>],
                              result, table, after))
           /\ hist' = [hist EXCEPT
                         !.approveCalled = @ \cup {a},
                         !.approveOk = IF result.tag = "return" THEN @ \cup {a} ELSE @]

---------------------------------------------------------------------------
(* The two statusOfVetting side by side: the library's is called for an     *)
(* address, then the script's for the same address, the remote query        *)
(* answering it as it answered the library                                  *)

\* the library's statusOfVetting(a), the query ending as o; nothing is kept
\* of the calls before it
LibStatus(a, o) ==
    LET start == statusOfVetting_start("valid")
    IN  /\ lastOp' = IF start.tag = "await"
                     THEN OpRecord("status", a, <<start.message>>, o,
                                   statusOfVetting_return(a, o), table, table)
                     ELSE OpRecord("status", a, << >>, [t |-> "none", v |-> << >>],
                                   start, table, table)
        /\ prevOp' = NoOp
        /\ UNCHANGED <<table, hist>>

\* the script's statusOfVetting for the address just asked of the library
CliStatus ==
    /\ lastOp.op = "status"
    /\ LET start == cli_statusOfVetting_start("valid")
       IN  Record(IF start.tag = "await"
                  THEN OpRecord("cliStatus", lastOp.addr, <<start.message>>,
                                lastOp.out, cli_statusOfVetting_return(lastOp.out),
                                table, table)
                  ELSE OpRecord("cliStatus", lastOp.addr, << >>,
                                [t |-> "none", v |-> << >>], start, table, table))
    /\ UNCHANGED <<table, hist>>

---------------------------------------------------------------------------
(* Concurrent requests: POST /api/create-supply for one token type, sent    *)
(* several times at once.  Each handler runs createSupply from await to     *)
(* await, and the handlers' steps interleave.  The chain is the Move        *)
(* package's, which is not among the sources: a create_supply transaction   *)
(* that succeeds and creates its object leaves the signer owning one more   *)
(* BRAAV object of the type.                                                *)

Requests == 1..MaxRequests

\* a handler: the call it awaits ("idle" before the request, "done" after the
\* response), how its create_supply transaction went ("none" when it did not
\* submit one, "submitted" while it is in flight), and how createSupply ended
Handler(at, tx, result) == [pc |-> at, tx |-> tx, result |-> result]

\* the handler after a piece of createSupply that ended as lib
After(h, lib, tx) ==
    IF lib.tag = "await" THEN Handler(lib.message, tx, h.result)
    ELSE Handler("done", tx, lib)

\* getOwnedObjects, answered from the chain as it is when the answer is made
OwnedNow(throws) ==
    IF throws THEN "throws" ELSE IF owned > 0 THEN "nonempty" ELSE "empty"

\* what a create_supply transaction leaves on the chain
RemoteSupply(out, n) == IF out = "success_created" THEN n + 1 ELSE n

\* the request arrives with a valid body: createSupply up to getOwnedObjects
ConcurrentReceive(r) ==
    /\ handlers[r].pc = "idle"
    /\ handlers' = [handlers EXCEPT ![r] = After(@, createSupply_start, "none")]
    /\ UNCHANGED owned

\* getOwnedObjects returns: the 'already used' check, then the transaction
\* is submitted
ConcurrentOwnedReturns(r, throws) ==
    /\ handlers[r].pc = "getOwnedObjects"
    /\ LET lib == createSupply_owned(OwnedNow(throws))
       IN  handlers' = [handlers EXCEPT ![r] =
                           After(@, lib, IF lib.tag = "await" THEN "submitted"
                                         ELSE "none")]
    /\ UNCHANGED owned

\* signAndExecuteTransaction returns
ConcurrentTxReturns(r, out) ==
    /\ handlers[r].pc = "tx"
    /\ owned' = RemoteSupply(out, owned)
    /\ handlers' = [handlers EXCEPT ![r] = After(@, createSupply_tx(out), out)]

\* fetchWithRetry ends, shown here by its last attempt
ConcurrentFetchEnds(r, out) ==
    /\ handlers[r].pc = "getObject"
    /\ handlers' = [handlers EXCEPT ![r] =
                        After(@, fetchWithRetry(Retries - 1, out), @.tx)]
    /\ UNCHANGED owned

ConcurrentIdle ==
    /\ handlers = [r \in Requests |-> Handler("idle", "none", NoLib)]
    /\ owned = 0

---------------------------------------------------------------------------
ServerIdle ==
    /\ req = NoReq
    /\ pc = "idle"
    /\ pending = "none"
    /\ retryI = 0
    /\ calls = << >>
    /\ resp = NoResp
    /\ nresp = 0
    /\ libOut = NoLib
    /\ signer = "none"

\* nothing was called in the vetting workflow, and nobody has applied
VettingIdle ==
    /\ table = EmptyTable
    /\ lastOp = NoOp
    /\ prevOp = NoOp
    /\ hist = NoHist

Init ==
    /\ env \in EnvConfigs
    /\ ServerIdle
    /\ wInput = [id |-> NotGiven, created_at |-> NotGiven, secret_key |-> NotGiven]
    /\ wGen = 0
    /\ wFirst = NoDerivation
    /\ wLast = NoDerivation
    /\ VettingIdle
    /\ ConcurrentIdle

Next ==
    \/ \E a \in AddrVals : StatusReceive(a) /\ UNCHANGED <<walletVars, vettingVars, concurrentVars>>
    \/ \E o \in DevInspectOutcomes : StatusQueryReturns(o) /\ UNCHANGED <<walletVars, vettingVars, concurrentVars>>
    \/ \E a \in AddrVals : ApproveReceive(a) /\ UNCHANGED <<walletVars, vettingVars, concurrentVars>>
    \/ \E o \in TxOutcomes : ApproveTxReturns(o) /\ UNCHANGED <<walletVars, vettingVars, concurrentVars>>
    \/ \E wc \in WcVals, k \in PkVals \ {NoKey}, lenient \in BOOLEAN :
            SubmitReceive(wc, k, lenient) /\ UNCHANGED <<walletVars, vettingVars, concurrentVars>>
    \/ \E o \in BalanceOutcomes : SubmitBalanceReturns(o) /\ UNCHANGED <<walletVars, vettingVars, concurrentVars>>
    \/ \E o \in TxOutcomes : SubmitTxReturns(o) /\ UNCHANGED <<walletVars, vettingVars, concurrentVars>>
    \/ InitTableReceive /\ UNCHANGED <<walletVars, vettingVars, concurrentVars>>
    \/ \E o \in TxOutcomes : InitTableTxReturns(o) /\ UNCHANGED <<walletVars, vettingVars, concurrentVars>>
    \/ \E b \in MintBodies(MintRequired) : MintReceive(b) /\ UNCHANGED <<walletVars, vettingVars, concurrentVars>>
    \/ \E o \in TxOutcomes : MintTxReturns(o) /\ UNCHANGED <<walletVars, vettingVars, concurrentVars>>
    \/ \E b \in MintBodies(RestrictedRequired \cup {"badgeCoinId"}) :
            MintRestrictedReceive(b) /\ UNCHANGED <<walletVars, vettingVars, concurrentVars>>
    \/ \E o \in TxOutcomes : MintRestrictedTxReturns(o) /\ UNCHANGED <<walletVars, vettingVars, concurrentVars>>
    \/ \E l \in SupplyVals, n \in NameVals : SupplyReceive(l, n) /\ UNCHANGED <<walletVars, vettingVars, concurrentVars>>
    \/ \E o \in OwnedOutcomes : SupplyOwnedReturns(o) /\ UNCHANGED <<walletVars, vettingVars, concurrentVars>>
    \/ \E o \in TxOutcomes : SupplyTxReturns(o) /\ UNCHANGED <<walletVars, vettingVars, concurrentVars>>
    \/ \E o \in GetObjectOutcomes : SupplyFetchReturns(o) /\ UNCHANGED <<walletVars, vettingVars, concurrentVars>>
    \/ SupplyDelayElapses /\ UNCHANGED <<walletVars, vettingVars, concurrentVars>>
    \/ \E ep \in DisplayEps, b \in DisplayBodies : DisplayReceive(ep, b) /\ UNCHANGED <<walletVars, vettingVars, concurrentVars>>
    \/ \E o \in PublisherOutcomes : DisplayPublisherReturns(o) /\ UNCHANGED <<walletVars, vettingVars, concurrentVars>>
    \/ \E o \in TxOutcomes : DisplayTxReturns(o) /\ UNCHANGED <<walletVars, vettingVars, concurrentVars>>
    \/ \E u \in UserDetailsVals, m \in BOOLEAN, now \in TimeStrs, rnd \in RandStrs :
            WalletReceive(u, m, now, rnd) /\ UNCHANGED <<walletVars, vettingVars, concurrentVars>>
    \/ Finish /\ UNCHANGED <<walletVars, vettingVars, concurrentVars>>

\* the API server
Spec == Init /\ [][Next]_vars

InitWallet ==
    /\ env \in {EnvVars, EnvVars \ {"WALLET_SECRET"}}
    /\ ServerIdle
    /\ wInput \in WalletInputs
    /\ wGen = 0
    /\ wFirst = NoDerivation
    /\ wLast = NoDerivation
    /\ VettingIdle
    /\ ConcurrentIdle

NextWallet ==
    \/ DeriveWallet /\ UNCHANGED <<serverVars, vettingVars, concurrentVars>>
    \/ RestartProcess /\ UNCHANGED <<serverVars, vettingVars, concurrentVars>>

\* the wallet derivation
SpecWallet == InitWallet /\ [][NextWallet]_vars

InitVetting ==
    /\ env = EnvVars
    /\ ServerIdle
    /\ wInput = [id |-> NotGiven, created_at |-> NotGiven, secret_key |-> NotGiven]
    /\ wGen = 0
    /\ wFirst = NoDerivation
    /\ wLast = NoDerivation
    /\ VettingIdle
    /\ ConcurrentIdle

NextVetting ==
    \/ \E a \in Applicants, o \in QueryOutcomes :
            WfStatus(a, o) /\ UNCHANGED <<serverVars, walletVars, concurrentVars>>
    \/ \E a \in Applicants, b \in BalanceOutcomes, o \in TxOutcomes :
            WfSubmit(a, b, o) /\ UNCHANGED <<serverVars, walletVars, concurrentVars>>
    \/ \E a \in Applicants, o \in TxOutcomes :
            WfApprove(a, o) /\ UNCHANGED <<serverVars, walletVars, concurrentVars>>

\* the vetting workflow
SpecVetting == InitVetting /\ [][NextVetting]_vars

NextStatus ==
    \/ \E a \in Applicants, o \in DevInspectOutcomes :
            LibStatus(a, o) /\ UNCHANGED <<serverVars, walletVars, concurrentVars>>
    \/ CliStatus /\ UNCHANGED <<serverVars, walletVars, concurrentVars>>

\* the library's and the script's statusOfVetting, with PACKAGE_ID and
\* VETTING_TABLE_ID configured
SpecStatus == InitVetting /\ [][NextStatus]_vars

InitConcurrent ==
    /\ env \in {EnvVars, EnvVars \ {"CREATOR_CAP_ID"}}
    /\ ServerIdle
    /\ wInput = [id |-> NotGiven, created_at |-> NotGiven, secret_key |-> NotGiven]
    /\ wGen = 0
    /\ wFirst = NoDerivation
    /\ wLast = NoDerivation
    /\ VettingIdle
    /\ ConcurrentIdle

NextConcurrent ==
    \/ \E r \in Requests :
            ConcurrentReceive(r) /\ UNCHANGED <<serverVars, walletVars, vettingVars>>
    \/ \E r \in Requests, throws \in BOOLEAN :
            ConcurrentOwnedReturns(r, throws)
                /\ UNCHANGED <<serverVars, walletVars, vettingVars>>
    \/ \E r \in Requests, o \in TxOutcomes :
            ConcurrentTxReturns(r, o) /\ UNCHANGED <<serverVars, walletVars, vettingVars>>
    \/ \E r \in Requests, o \in {"data", "nodata", "otherError"} :
            ConcurrentFetchEnds(r, o) /\ UNCHANGED <<serverVars, walletVars, vettingVars>>

\* create-supply requests for one token type, handled at the same time
SpecConcurrent == InitConcurrent /\ [][NextConcurrent]_vars

InitSupply ==
    /\ env \in {EnvVars, EnvVars \ {"CREATOR_CAP_ID"}}
    /\ ServerIdle
    /\ wInput = [id |-> NotGiven, created_at |-> NotGiven, secret_key |-> NotGiven]
    /\ wGen = 0
    /\ wFirst = NoDerivation
    /\ wLast = NoDerivation
    /\ VettingIdle
    /\ ConcurrentIdle

GetObjectReturns ==
    \E o \in GetObjectOutcomes :
        SupplyFetchReturns(o) /\ UNCHANGED <<walletVars, vettingVars, concurrentVars>>
DelayElapses == SupplyDelayElapses /\ UNCHANGED <<walletVars, vettingVars, concurrentVars>>

NextSupply ==
    \/ \E l \in SupplyVals, n \in NameVals :
            SupplyReceive(l, n) /\ UNCHANGED <<walletVars, vettingVars, concurrentVars>>
    \/ \E o \in OwnedOutcomes :
            SupplyOwnedReturns(o) /\ UNCHANGED <<walletVars, vettingVars, concurrentVars>>
    \/ \E o \in TxOutcomes : SupplyTxReturns(o) /\ UNCHANGED <<walletVars, vettingVars, concurrentVars>>
    \/ GetObjectReturns
    \/ DelayElapses
    \/ Finish /\ UNCHANGED <<walletVars, vettingVars, concurrentVars>>

\* POST /api/create-supply on its own.  The node answers every getObject
\* call, and a timer that was set fires.
SpecSupply ==
    /\ InitSupply
    /\ [][NextSupply]_vars
    /\ WF_vars(GetObjectReturns)
    /\ WF_vars(DelayElapses)

---------------------------------------------------------------------------
(* Properties of the vetting-status resolver *)

StatusDone == req.ep = "status-of-vetting" /\ pc = "done"

\* C1 as stated: statusOfVetting never raises an error to its caller, whatever
\* the applicant address, the process configuration and the outcome of the
\* remote query
C1_NeverRaises ==
    (StatusDone /\ libOut.tag # "none") => libOut.tag = "return"

\* C1 as the code has it: statusOfVetting raises only before it issues the
\* remote query, when PACKAGE_ID or VETTING_TABLE_ID is unset or when the
\* transaction builder rejects the address; once the query is issued, every
\* outcome of it yields a returned status result
C1_RaisesOnlyBeforeQuery ==
    (StatusDone /\ libOut.tag # "none") =>
        /\ libOut.tag = "throw" =>
              /\ calls = << >>
              /\ \/ ~IsSet("PACKAGE_ID")
                 \/ ~IsSet("VETTING_TABLE_ID")
                 \/ req.applicantAddress = "invalid"
        /\ calls # << >> => libOut.tag = "return" /\ libOut.val.kind = "status"

\* the query threw and the resolver returned a status result all the same
C1_Witness ==
    /\ StatusDone
    /\ calls # << >>
    /\ calls[1].out = "throws"
    /\ libOut.tag = "return"
    /\ libOut.val.hasApplied = "false"

\* C2: when the query succeeds with first return value v, the result is
\* hasApplied=false, isApproved=null for v = [0]; hasApplied=true,
\* isApproved=(b = 1) for v = [1, b]; and for every other v hasApplied=false,
\* isApproved=null with the message 'Unexpected return value'
C2_DecodesOptionBytes ==
    (StatusDone /\ calls # << >> /\ calls[1].out = "bytes") =>
        LET v == calls[1].v
            r == libOut.val
        IN  /\ libOut.tag = "return"
            /\ IF v = <<0>>
               THEN r.hasApplied = "false" /\ r.isApproved = "null"
               ELSE IF Len(v) = 2 /\ v[1] = 1
               THEN /\ r.hasApplied = "true"
                    /\ r.isApproved = (IF v[2] = 1 THEN "true" ELSE "false")
               ELSE /\ r.hasApplied = "false"
                    /\ r.isApproved = "null"
                    /\ r.message = "Unexpected return value"

\* a decided application whose inner byte is neither 0 nor 1 is not approved
C2_Witness ==
    /\ StatusDone
    /\ calls # << >>
    /\ calls[1].v = <<1, 255>>
    /\ libOut.val.hasApplied = "true"
    /\ libOut.val.isApproved = "false"

\* C3: POST /api/status-of-vetting with applicantAddress present, when the
\* query throws or reports a non-success status, answers with the success
\* shape {hasApplied:false, isApproved:null, message} and never with a 500
C3_StatusDegrades ==
    (StatusDone /\ calls # << >> /\ calls[1].out \in {"throws", "failure"}) =>
        /\ resp.status = 200
        /\ resp.kind = "status"
        /\ resp.hasApplied = "false"
        /\ resp.isApproved = "null"
        /\ resp.message # "na"

C3_Witness ==
    /\ StatusDone
    /\ calls # << >>
    /\ calls[1].out = "failure"
    /\ resp.status = 200
    /\ resp.hasApplied = "false"

---------------------------------------------------------------------------
(* Properties of the routes *)

\* GET /api/endpoints: the body fields each endpoint lists as required
MintCatalog == {"packageId", "supplyCapId", "lineageId", "counterId",
                "recipientAddress", "nftName", "badgeCoinId"}
RestrictedMintCatalog == {"packageId", "supplyCapId", "creatorCapId", "lineageId",
                          "counterId", "recipientAddress", "nftName", "coinId",
                          "braavVersion"}

\* the request lacks a field its endpoint requires
MissingRequired(r) ==
    CASE r.ep \in {"approve-vetting", "status-of-vetting"} ->
            r.applicantAddress = "absent"
      [] r.ep = "create-wallet" ->
            ~r.userDetails.given \/ ~r.userDetails.id.given
      [] r.ep = "create-supply" ->
            r.supplyLimit = "absent" \/ r.tokenTypeName = "absent"
      [] r.ep = "mint-nft" -> r.body.missing \cap MintCatalog # {}
      [] r.ep = "mint-restricted-nft" ->
            r.body.missing \cap RestrictedMintCatalog # {}
      [] r.ep \in DisplayEps ->
            \/ r.body.displayKeys.k = "absent"
            \/ r.body.displayValues.k = "absent"
            \/ r.body.braavVersion = "absent"
      [] OTHER -> FALSE

\* C4: a request missing a field its endpoint requires is answered with 400,
\* and no remote call is made while handling it
C4_MissingFieldIs400 ==
    MissingRequired(req) =>
        /\ pc = "done"
        /\ resp.status = 400
        /\ calls = << >>
        /\ libOut.tag = "none"

C4_Witness ==
    /\ req.ep = "mint-restricted-nft"
    /\ req.body.missing = {"braavVersion"}
    /\ IsSet("MNEMONIC") /\ IsSet("SUI_NETWORK")
    /\ resp.status = 400
    /\ calls = << >>

\* the request needs an environment variable that is not set.  SUI_NETWORK has
\* a default in the vetting functions; submitForVetting signs with the
\* request's credentials when it has them, else with MNEMONIC or PRIVATE_KEY
NeedsMissingEnv(r) ==
    CASE r.ep = "status-of-vetting" ->
            {"PACKAGE_ID", "VETTING_TABLE_ID"} \ env # {}
      [] r.ep = "approve-vetting" ->
            {"PACKAGE_ID", "VETTING_TABLE_ID", "ADMIN_CAP", "MNEMONIC"} \ env # {}
      [] r.ep = "submit-for-vetting" ->
            \/ {"PACKAGE_ID", "VETTING_TABLE_ID"} \ env # {}
            \/ ~r.walletCredentials.given /\ {"MNEMONIC", "PRIVATE_KEY"} \cap env = {}
      [] r.ep = "initialize-vetting-table" ->
            {"PACKAGE_ID", "MNEMONIC", "ADMIN_CAP"} \ env # {}
      [] r.ep = "create-supply" ->
            {"MNEMONIC", "PACKAGE_ID", "SUI_NETWORK", "CREATOR_CAP_ID"} \ env # {}
      [] r.ep \in {"mint-nft", "mint-restricted-nft"} ->
            {"MNEMONIC", "SUI_NETWORK"} \ env # {}
      [] r.ep \in DisplayEps ->
            {"MNEMONIC", "PUBLISHER_ID", "PACKAGE_ID", "SUI_NETWORK"} \ env # {}
      [] OTHER -> FALSE

\* every field of the request is present and of the form its endpoint wants
WellFormed(r) ==
    CASE r.ep \in {"approve-vetting", "status-of-vetting"} ->
            r.applicantAddress \in ValidAddrs
      [] r.ep = "create-supply" ->
            r.supplyLimit = "positive" /\ r.tokenTypeName = "ok"
      [] r.ep \in {"mint-nft", "mint-restricted-nft"} ->
            r.body.missing = {} /\ r.body.addr = "valid"
      [] r.ep \in DisplayEps ->
            /\ r.body.displayKeys.k = "array"
            /\ r.body.displayValues.k = "array"
            /\ r.body.displayKeys.len = r.body.displayValues.len
            /\ r.body.braavVersion = "ok"
      [] OTHER -> TRUE

\* C5 as stated: when a required environment variable is missing, every
\* endpoint that needs it answers with a 400-class response, before any
\* remote call
C5_MissingEnvIs400 ==
    NeedsMissingEnv(req) =>
        /\ pc = "done"
        /\ resp.status \in 400..499
        /\ calls = << >>

\* C5 as the code has it: when a required environment variable is missing,
\* every endpoint that needs it answers with an error response before any
\* remote call; the response is a 500 when the request's fields are well
\* formed (a 400 is sent only for a request that fails field validation)
C5_MissingEnvIs500 ==
    NeedsMissingEnv(req) =>
        /\ pc = "done"
        /\ calls = << >>
        /\ resp.kind = "error"
        /\ resp.status \in {400, 500}
        /\ WellFormed(req) => resp.status = 500
        /\ resp.status = 400 => libOut.tag = "none"

C5_Witness ==
    /\ req.ep = "create-supply"
    /\ WellFormed(req)
    /\ env = EnvVars \ {"CREATOR_CAP_ID"}
    /\ resp.status = 500
    /\ calls = << >>

\* the outcome of the latest remote call of the request
LastCall == calls[Len(calls)]

StateChanging == {"approve-vetting", "submit-for-vetting", "create-supply",
                  "mint-nft", "mint-restricted-nft", "create-display"}

\* C6: on a state-changing endpoint, a transaction that comes back with a
\* non-success execution status, or whose submission throws, is answered
\* with a 500 and never with a success body
C6_FailedTxIs500 ==
    (/\ req.ep \in StateChanging
     /\ pc = "done"
     /\ calls # << >>
     /\ LastCall.kind = "tx"
     /\ LastCall.out \in {"throws", "failure"}) =>
        resp.status = 500 /\ resp.success # "true"

CreatesObject == {"mint-nft", "mint-restricted-nft", "create-display",
                  "initialize-vetting-table"}

\* C7: when the transaction succeeds but the expected created object (NFT,
\* RestrictedNFT, Display, VettingTable) is absent from its object changes,
\* the operation reports an error and never returns a success result
C7_MissingObjectIsError ==
    (/\ req.ep \in CreatesObject
     /\ pc = "done"
     /\ calls # << >>
     /\ LastCall.kind = "tx"
     /\ LastCall.out = "success_nocreated") =>
        libOut.tag = "throw" /\ resp.success # "true"

CallKinds == {"devInspect", "tx", "getBalance", "getOwnedObjects", "getObject"}

CountCalls(kind) == Cardinality({i \in 1..Len(calls) : calls[i].kind = kind})

\* the call threw, came back with a non-success status, or came back without
\* the object asked for
Failed(c) == c.out \in {"throws", "failure", "notExists", "otherError", "nodata"}

GoesOnAfter(c) ==
    \/ req.ep = "submit-for-vetting" /\ c.kind = "getBalance" /\ c.out = "throws"
    \/ req.ep = "create-supply" /\ c.kind = "getObject"
          /\ c.out \in {"notExists", "nodata"}

---------------------------------------------------------------------------
(* Properties of the wallet derivation *)

C10_FailsWithoutIdOrSecret ==
    (wLast.out.tag # "none" /\ (~wInput.id.given \/ ~wInput.secret_key.given)) =>
        wLast.out.tag = "throw" /\ wLast.out.val.wallet = NoWallet

\* the digest createCustodialWallet computes for the userDetails under study
Digest == HmacSha256(WalletSecret, SeedData(wInput))

\* C12: the display mnemonic always has exactly 12 words, and for each i in
\* 0..11 word i is the word list's entry at index (digest byte 2*i) modulo
\* the size of the word list
C12_MnemonicWords ==
    wLast.out.tag = "return" =>
        LET mnemonic == wLast.out.val.wallet.mnemonic
        IN  /\ Len(mnemonic) = 12
            /\ Len(words) = WordCount
            /\ \A i \in 0..11 :
                  mnemonic[i + 1] = words[(Digest[2 * i + 1] % WordCount) + 1]

\* a mnemonic whose words are not all the same
C12_Witness ==
    /\ wLast.out.tag = "return"
    /\ Len(wLast.out.val.wallet.mnemonic) = 12
    /\ \E i, j \in 1..12 :
          wLast.out.val.wallet.mnemonic[i] # wLast.out.val.wallet.mnemonic[j]

\* C13: the private-key seed createCustodialWallet hands to the keypair
\* constructor is exactly 32 bytes long for every input, whatever the lengths
\* of id, created_at, secret_key and WALLET_SECRET
C13_SeedIs32Bytes ==
    wLast.out.tag # "none" =>
        /\ wLast.out.tag = "return"
        /\ Len(wLast.out.val.wallet.privateKey) = 32

\* a key derived from absent and empty fields under the default secret
C13_Witness ==
    /\ wLast.out.tag = "return"
    /\ ~IsSet("WALLET_SECRET")
    /\ wInput.id = Given(<< >>)
    /\ ~wInput.secret_key.given
    /\ Len(wLast.out.val.wallet.privateKey) = 32

---------------------------------------------------------------------------
(* Further properties of the routes *)

\* C11: POST /api/create-wallet with userDetails.id present returns a success
\* response carrying the wallet, for useStandardMnemonic false and true alike
C11_WalletForBothModes ==
    (/\ req.ep = "create-wallet"
     /\ pc = "done"
     /\ req.userDetails.given
     /\ req.userDetails.id.given
     /\ req.userDetails.id.s # << >>) =>
        /\ resp.status = 200
        /\ resp.success = "true"
        /\ resp.kind = "wallet"
        /\ resp.wallet # NoWallet

RestrictedMint == req.ep = "mint-restricted-nft"

\* C16 as stated: a mint-restricted-nft request lacking any field that
\* mint-nft requires (badgeCoinId among them) is rejected with 400 and no
\* remote call
C16_RestrictedRequiresMintFields ==
    (RestrictedMint /\ req.body.missing \cap MintCatalog # {}) =>
        pc = "done" /\ resp.status = 400 /\ calls = << >>

\* C16 as the code has it: mint-restricted-nft requires packageId,
\* supplyCapId, creatorCapId, lineageId, counterId, recipientAddress, nftName,
\* coinId and braavVersion, that is mint-nft's fields with coinId in the place
\* of badgeCoinId, plus creatorCapId and braavVersion; a request lacking any
\* of these is rejected with 400 and no remote call, and a request lacking
\* only badgeCoinId is not rejected
C16_RestrictedRequiresCoinId ==
    /\ (RestrictedMint /\
        req.body.missing \cap ((MintCatalog \ {"badgeCoinId"})
                               \cup {"creatorCapId", "coinId", "braavVersion"}) # {}) =>
           pc = "done" /\ resp.status = 400 /\ calls = << >>
    /\ (RestrictedMint /\ req.body.missing = {"badgeCoinId"}
        /\ req.body.addr = "valid") => resp.status # 400

\* a restricted mint without badgeCoinId reached the network
C16_Witness ==
    /\ RestrictedMint
    /\ req.body.missing = {"badgeCoinId"}
    /\ calls # << >>
    /\ resp.status = 200

\* C17: POST /api/create-supply calls createSupply only when supplyLimit is a
\* number greater than 0 and tokenTypeName is a non-empty value; every other
\* body is answered with 400 and no remote call
C17_SupplyOnlyWhenValid ==
    req.ep = "create-supply" =>
        IF req.supplyLimit = "positive" /\ req.tokenTypeName = "ok"
        THEN libOut.tag # "none" \/ pc = "await"
        ELSE /\ pc = "done"
             /\ resp.status = 400
             /\ calls = << >>
             /\ libOut.tag = "none"

C17_Witness ==
    /\ req.ep = "create-supply"
    /\ req.supplyLimit = "negative"
    /\ req.tokenTypeName = "ok"
    /\ env = EnvVars
    /\ resp.status = 400

SubmitReq == req.ep = "submit-for-vetting"

\* C20: submitForVetting submits its transaction only if the signer's balance
\* was read as non-zero or the balance query itself failed; when the balance
\* is read as zero it raises an error and no transaction is submitted
C20_NoTxOnZeroBalance ==
    SubmitReq =>
        /\ (pending = "tx" \/ CountCalls("tx") > 0) =>
              /\ calls # << >>
              /\ calls[1].kind = "getBalance"
              /\ calls[1].out \in {"nonzero", "throws"}
        /\ (calls # << >> /\ calls[1].out = "zero") =>
              /\ pc = "done"
              /\ Len(calls) = 1
              /\ libOut.tag = "throw"
              /\ resp.status = 500

C20_Witness ==
    /\ SubmitReq
    /\ calls # << >>
    /\ calls[1].kind = "getBalance"
    /\ calls[1].out = "zero"
    /\ libOut.message = "No SUI tokens found in wallet"

\* C18: submitForVetting signs with the request's credentials whenever
\* walletCredentials is supplied, mnemonic before privateKey; it uses the
\* environment's MNEMONIC / PRIVATE_KEY only when walletCredentials is absent;
\* supplied credentials carrying neither are an error, with no fallback
C18_CredentialSelection ==
    SubmitReq =>
        LET wc == req.walletCredentials
            configured == IsSet("PACKAGE_ID") /\ IsSet("VETTING_TABLE_ID")
        IN  /\ signer \in {"env.MNEMONIC", "env.PRIVATE_KEY"} => ~wc.given
            /\ (wc.given /\ wc.mnemonic # "absent" /\ configured) =>
                  signer = "request.mnemonic"
            /\ (wc.given /\ wc.mnemonic = "absent" /\ wc.privateKey = BareKey
                /\ configured) => signer = "request.privateKey"
            /\ (wc.given /\ wc.mnemonic = "absent" /\ wc.privateKey = NoKey) =>
                  /\ pc = "done"
                  /\ signer = "none"
                  /\ libOut.tag = "throw"
                  /\ calls = << >>
            /\ (~wc.given /\ configured) =>
                  IF IsSet("MNEMONIC") THEN signer = "env.MNEMONIC"
                  ELSE IF ~IsSet("PRIVATE_KEY") THEN signer = "none"
                  ELSE IF req.privateKey \in {BareKey, PrefixedKey}
                  THEN signer = "env.PRIVATE_KEY"
                  ELSE signer \in {"env.PRIVATE_KEY", "none"}
            /\ (pc = "await" \/ calls # << >>) => signer # "none"

\* credentials without mnemonic and privateKey are refused though the
\* environment has both
C18_Witness ==
    /\ SubmitReq
    /\ req.walletCredentials.given
    /\ req.walletCredentials.mnemonic = "absent"
    /\ req.walletCredentials.privateKey = NoKey
    /\ env = EnvVars
    /\ resp.status = 500
    /\ signer = "none"

---------------------------------------------------------------------------
(* Properties of the vetting workflow *)

C15_StatusReadsOnly ==
    lastOp.op = "status" =>
        /\ Len(lastOp.kinds) <= 1
        /\ \A i \in 1..Len(lastOp.kinds) : lastOp.kinds[i] = "devInspect"
        /\ lastOp.after = lastOp.before
        /\ table = lastOp.before

\* two status checks in a row of a table that holds an application
C15_Witness ==
    /\ prevOp.op = "status"
    /\ lastOp.op = "status"
    /\ lastOp.kinds = <<"devInspect">>
    /\ prevOp.before # EmptyTable
    /\ table = prevOp.before

\* C19: in the documented workflow, a status check for A reports
\* hasApplied=false before any submit for A; hasApplied=true,
\* isApproved=false after a successful submit and before approve; and
\* hasApplied=true, isApproved=true after a successful approve of A.  The
\* status checks meant are those whose remote query answered.
C19_WorkflowStatus ==
    (lastOp.op = "status" /\ lastOp.out.t = "bytes") =>
        LET a == lastOp.addr
            r == lastOp.result.val
        IN  /\ a \notin hist.submitCalled => r.hasApplied = "false"
            /\ (a \in hist.submitOk /\ a \notin hist.approveCalled) =>
                  r.hasApplied = "true" /\ r.isApproved = "false"
            /\ a \in hist.approveOk =>
                  r.hasApplied = "true" /\ r.isApproved = "true"

---------------------------------------------------------------------------
(* Properties of createSupply and fetchWithRetry *)

SupplyReq == req.ep = "create-supply"

\* the outcomes of the getObject calls of fetchWithRetry so far, in order
Attempts == SelectSeq(calls, LAMBDA c : c.kind = "getObject")

InFetch == SupplyReq /\ pc = "await" /\ pending \in {"getObject", "delay"}

NotFound == "Object not found after retries"

\* what holds of fetchWithRetry at every moment
FetchBounded ==
    SupplyReq =>
        /\ Len(Attempts) <= Retries
        /\ \A i \in 1..Len(Attempts) :
              Attempts[i].out = "data" =>
                  /\ i = Len(Attempts)
                  /\ pc = "done"
                  /\ libOut.tag = "return"
        /\ (pc = "done" /\ libOut.tag = "return" /\ Attempts # << >>) =>
              Attempts[Len(Attempts)].out = "data"
        /\ (/\ pc = "done"
            /\ Attempts # << >>
            /\ \A i \in 1..Len(Attempts) : Attempts[i].out \in {"nodata", "notExists"}) =>
              /\ Len(Attempts) = Retries
              /\ libOut = Throw(NotFound)
        /\ libOut.message = NotFound => Len(Attempts) = Retries

\* C22: fetchWithRetry always terminates, after at most retries (10) getObject
\* calls: it returns the first response that carries data, and if no attempt
\* yields data (each answering without data or with 'notExists') it raises
\* 'Object ... not found after N retries', having made all its attempts
C22_FetchTerminates ==
    /\ []FetchBounded
    /\ InFetch ~> (pc = "done")

\* the third attempt found the object, after a response without data and a
\* 'notExists' error
C22_Witness ==
    /\ SupplyReq
    /\ pc = "done"
    /\ Len(Attempts) = 3
    /\ Attempts[1].out = "nodata"
    /\ Attempts[2].out = "notExists"
    /\ Attempts[3].out = "data"
    /\ resp.status = 200

\* C23: in fetchWithRetry a getObject error whose code is not 'notExists' is
\* propagated at once, with no further attempt; a 'notExists' error is
\* followed by a delay and then by the next attempt (after the last attempt,
\* by the 'not found' error), and there is no delay after anything else
C23_ErrorsOfGetObject ==
    SupplyReq =>
        \A i \in 1..Len(calls) :
            /\ (calls[i].kind = "getObject" /\ calls[i].out = "otherError") =>
                  /\ i = Len(calls)
                  /\ pc = "done"
                  /\ libOut = Throw("getObject error")
                  /\ resp.status = 500
            /\ (calls[i].kind = "getObject" /\ calls[i].out = "notExists") =>
                  IF i = Len(calls)
                  THEN pc = "await" /\ pending = "delay"
                  ELSE calls[i + 1].kind = "delay"
            /\ calls[i].kind = "delay" =>
                  /\ i > 1
                  /\ calls[i - 1].kind = "getObject"
                  /\ calls[i - 1].out = "notExists"
                  /\ IF i = Len(calls)
                     THEN \/ pc = "await" /\ pending = "getObject"
                          \/ /\ pc = "done"
                             /\ libOut = Throw(NotFound)
                             /\ Len(Attempts) = Retries
                     ELSE calls[i + 1].kind = "getObject"

\* an error other than 'notExists' ended the fetch after a 'notExists' error
\* had been waited out
C23_Witness ==
    /\ SupplyReq
    /\ pc = "done"
    /\ Len(calls) = 5
    /\ calls[3].out = "notExists"
    /\ calls[4].kind = "delay"
    /\ calls[5].out = "otherError"
    /\ resp.status = 500

\* C24: createSupply submits the create_supply transaction only after it
\* asked for the signer's owned objects of type BRAAV<typeArg> and found none;
\* if one exists it raises '... already used ...' and submits nothing
C24_SupplyOnlyWhenUnused ==
    SupplyReq =>
        /\ (pending = "tx" \/ CountCalls("tx") > 0) =>
              /\ calls # << >>
              /\ calls[1].kind = "getOwnedObjects"
              /\ calls[1].out = "empty"
        /\ (calls # << >> /\ calls[1].out = "nonempty") =>
              /\ pc = "done"
              /\ Len(calls) = 1
              /\ libOut = Throw("already used for packageId")
              /\ resp.status = 500

C24_Witness ==
    /\ SupplyReq
    /\ pc = "done"
    /\ calls # << >>
    /\ calls[1].kind = "getOwnedObjects"
    /\ calls[1].out = "nonempty"
    /\ libOut.message = "already used for packageId"

---------------------------------------------------------------------------
(* Properties of submitForVetting's private key *)

\* submitForVetting tried to load a private key, the request's or the
\* environment's
KeyLoaded == SubmitReq /\ req.privateKey # NoKey

\* 64 characters, or 66 characters of which the first two are '0x'
AcceptedForm(k) == k.len = 64 \/ (k.len = 66 /\ k.prefixed)

KeyAccepted == req.keypair.tag = "ok"

\* the key was refused with the load error, before any remote call
KeyRejected ==
    /\ req.keypair.tag = "throw"
    /\ pc = "done"
    /\ calls = << >>
    /\ libOut.tag = "throw"
    /\ libOut.message \in {"Failed to load private key",
                           "Failed to load private key from environment"}
    /\ resp.status = 500

---------------------------------------------------------------------------
(* Further properties of the vetting-status resolver *)

\* C29: every result the library statusOfVetting returns has isApproved a
\* boolean exactly when hasApplied is true and null exactly when hasApplied
\* is false, and its applicantAddress is the address that was queried
C29_StatusResultShape ==
    (StatusDone /\ libOut.tag = "return") =>
        LET r == libOut.val
        IN  /\ r.hasApplied \in {"true", "false"}
            /\ r.isApproved \in {"true", "false", "null"}
            /\ (r.isApproved \in {"true", "false"}) = (r.hasApplied = "true")
            /\ (r.isApproved = "null") = (r.hasApplied = "false")
            /\ r.applicantAddress = req.applicantAddress
            /\ resp.applicantAddress = req.applicantAddress

\* the query for the second address threw, and the result names that address
C29_Witness ==
    /\ StatusDone
    /\ req.applicantAddress = "otherValid"
    /\ calls # << >>
    /\ calls[1].out = "throws"
    /\ libOut.tag = "return"
    /\ libOut.val.applicantAddress = "otherValid"
    /\ libOut.val.isApproved = "null"

---------------------------------------------------------------------------
(* Further properties of the wallet derivation *)

\* C27: distinct identity triples (id, created_at, secret_key) always produce
\* distinct seed-input strings for the HMAC, also when a field contains ':':
\* no other triple has the seed-input string of the one a wallet was derived
\* from
C27_SeedInputsDistinct ==
    wLast.out.tag # "none" =>
        \A other \in WalletInputs :
            other # wInput => SeedData(other) # SeedData(wInput)

---------------------------------------------------------------------------
(* Properties of POST /api/create-wallet *)

\* the wallet derivation was called for the request
WalletDerived == req.ep = "create-wallet" /\ libOut.tag # "none"

\* C28: in POST /api/create-wallet the user details passed to the wallet
\* derivation always have a non-empty created_at and a non-empty secret_key:
\* whenever the request's value is missing or empty, the generated default
\* (the current time, 32 random bytes in hex) is what is passed
C28_DefaultsFilled ==
    WalletDerived =>
        LET given == req.userDetails
            passed == req.completeUserDetails
        IN  /\ passed.created_at.given /\ passed.created_at.s # << >>
            /\ passed.secret_key.given /\ passed.secret_key.s # << >>
            /\ (~given.created_at.given \/ given.created_at.s = << >>) =>
                  passed.created_at.s \in TimeStrs
            /\ (~given.secret_key.given \/ given.secret_key.s = << >>) =>
                  passed.secret_key.s \in RandStrs

---------------------------------------------------------------------------
(* The script's statusOfVetting against the library's *)

\* the script was run after the library, on the same address and outcome
Compared == lastOp.op = "cliStatus" /\ prevOp.op = "status"

\* C25: with PACKAGE_ID and VETTING_TABLE_ID configured, the script's
\* statusOfVetting and the library's agree on every outcome of the remote
\* query: the script returns null exactly when the library returns
\* hasApplied=false, and the boolean b exactly when the library returns
\* hasApplied=true with isApproved=b
C25_CliAgreesWithLibrary ==
    Compared =>
        LET cli == lastOp.result
            lib == prevOp.result
        IN  /\ lastOp.addr = prevOp.addr
            /\ lastOp.out = prevOp.out
            /\ lastOp.kinds = prevOp.kinds
            /\ cli.tag = "return"
            /\ lib.tag = "return"
            /\ cli.val.isApproved \in {"null", "true", "false"}
            /\ (cli.val.isApproved = "null") = (lib.val.hasApplied = "false")
            /\ \A b \in {"true", "false"} :
                  (cli.val.isApproved = b) =
                      (lib.val.hasApplied = "true" /\ lib.val.isApproved = b)

\* both take an application decided with a byte other than 1 as not approved
C25_Witness ==
    /\ Compared
    /\ lastOp.out = [t |-> "bytes", v |-> <<1, 255>>]
    /\ lastOp.result.val.isApproved = "false"
    /\ prevOp.result.val.hasApplied = "true"
    /\ prevOp.result.val.isApproved = "false"

---------------------------------------------------------------------------
(* Concurrent create-supply requests *)

\* the requests whose create_supply transaction is in flight or has created
\* the supply
Supplying ==
    {r \in Requests : handlers[r].tx \in {"submitted", "success_created"}}

\* C26: under any interleaving of concurrent create-supply requests for the
\* same token type, at most one create_supply transaction is submitted for
\* that type: the 'already used' check is not passed by two requests (a
\* second request passes it, if at all, only after the transaction of the
\* first has ended without creating the supply)
C26_OneCreateSupply == Cardinality(Supplying) <= 1

---------------------------------------------------------------------------
(* Properties of every route *)

\* C30: every request the server handles receives exactly one HTTP response
\* (none while it is being handled, one when its handling has ended), and the
\* handling of one request submits at most one signed transaction
C30_OneResponseOneTx ==
    /\ nresp <= 1
    /\ (pc = "done") = (nresp = 1)
    /\ pc = "done" => resp.status \in {200, 400, 500}
    /\ pc # "done" => resp = NoResp
    /\ pc = "idle" => req = NoReq
    /\ CountCalls("tx") <= 1
    /\ pending = "tx" => CountCalls("tx") = 0

\* a request that made several remote calls, one of them a signed
\* transaction, and was answered once
C30_Witness ==
    /\ pc = "done"
    /\ nresp = 1
    /\ Len(calls) > 2
    /\ CountCalls("tx") = 1
    /\ resp.status = 200

===========================================================================
